---- MODULE Spec2Model ----
(***************************************************************************)
(* Account-security core of vibez: the device/session registry of          *)
(* src/app/api/device/route.ts and (auth)/login/page.tsx, the              *)
(* fixed-window rate limiters of the three API routes, and the             *)
(* verification codes of /api/verify-email in its two variants.            *)
(*                                                                         *)
(* Time is counted in seconds (the code counts milliseconds; every         *)
(* duration of the code is a whole number of seconds).                     *)
(*                                                                         *)
(* The document store is the transactional collaborator the code calls:    *)
(* a transaction reads the user document, computes its writes from that    *)
(* snapshot and commits them all or none; a commit whose snapshot is       *)
(* stale re-runs the transaction function; update() of a document that     *)
(* does not exist fails the commit; any commit may fail.  A                *)
(* serverTimestamp() field is the time of the commit.                      *)
(***************************************************************************)
EXTENDS Integers, Sequences, FiniteSets, TLC

(* ---------------------------- bounds ----------------------------------- *)
MaxReq == 2            \* requests and login submissions of a run
MaxTicks == 1          \* times the clock advances in a run
NumFP == 11            \* distinct fingerprints the clients use
MaxCalls == 7          \* calls of the rate limiters in a run
MaxLimiterTicks == 3   \* times the clock advances between those calls
MaxOps == 2            \* requests to /api/verify-email in a run
MaxCodeTicks == 3      \* times the clock advances between those requests

(* ------------------------ program constants ---------------------------- *)
maxDevices == 10
deviceWindowMs == 300
deviceMaxRequests == 3
verifyWindowMs == 60
verifyMaxRequests == 3
relayWindowMs == 60
relayMaxRequests == 5

(* The two request handlers that can be in flight at once. *)
Procs == {1, 2}
Other(p) == IF p = 1 THEN 2 ELSE 1

NoCookie == 0          \* request.cookies.get('deviceId') is undefined
Undefined == 0         \* a field the object does not have
ForeignCookie == -1    \* a cookie this user's registry never issued
NumIP == 4             \* client addresses the fingerprints are spread over
MaxRelayOps == 2        \* requests the relay serves in a run
MaxRelayTicks == 1      \* times the clock of the relay advances

(* Fingerprint f is the pair (user-agent, client IP) of getDeviceInfo. *)
clientIP(f) == ((f - 1) % NumIP) + 1
userAgent(f) == ((f - 1) \div NumIP) + 1

(* localStorage device id of the login page (uuidv4); it is not one of    *)
(* the ids the endpoint generates.                                         *)
LoginIds == {1000 + b : b \in {1}}

VARIABLES now, deviceRateLimitStore, userDoc, devicesCol, pc, req, nextId,
          jar,
          resp,                     \* the request answered last
          sent, ticks, usedFP,      \* what the run has used of its bounds
          lastStarted, concurrent,  \* which request started last, and how
                                    \* many requests overlap in a chain
                                    \* that ends with it (3: three or more)
          verifyRateLimitStore,     \* rateLimitStore of /api/verify-email
          relayRateLimitStore,      \* rateLimitStore of the email relay
          rlWindow, rlLast,         \* history of the limiter calls
          variant,                  \* which /api/verify-email a run serves
          verificationCodes,        \* Firestore collection verificationCodes
          verificationStore,        \* the in-memory Map of the route
          vpc, vreq,                \* the verify-email requests in flight
          vresp,                    \* the verify-email request answered last
          vops,                     \* verify-email requests started
          outbox,                   \* calls made to the mail service
          issued,                   \* history of the code stored per key
          relay,                    \* which email relay a run serves
          rresp,                    \* the relay request answered last
          relaySends,               \* calls of sendEmailServer
          rops,                     \* relay requests served
          firebase,                 \* Firebase auth accounts, the signed-in
                                    \* user and the users collection
          signup,                   \* onSubmit of the signup page
          guard                     \* state of the AuthProvider component

vars == <<now, deviceRateLimitStore, userDoc, devicesCol, pc, req, nextId,
          jar, resp, sent, ticks, usedFP, lastStarted, concurrent,
          verifyRateLimitStore, relayRateLimitStore, rlWindow, rlLast,
          variant, verificationCodes, verificationStore, vpc, vreq, vresp,
          vops, outbox, issued, relay, rresp, relaySends, rops, firebase,
          signup, guard>>

registryVars == <<userDoc, devicesCol, pc, req, nextId, jar, resp, sent,
                  usedFP, lastStarted, concurrent>>
limiterVars == <<verifyRateLimitStore, relayRateLimitStore, rlWindow, rlLast>>
codeVars == <<variant, verificationCodes, verificationStore, vpc, vreq, vresp,
              vops, outbox, issued>>
relayVars == <<relay, rresp, relaySends, rops>>
pageVars == <<firebase, signup, guard>>

(* ------------------------------ helpers -------------------------------- *)
Put(f, k, v) == [x \in DOMAIN f \cup {k} |-> IF x = k THEN v ELSE f[x]]

(* Array.prototype.slice(start): from index start, counted from the end    *)
(* when start is negative.                                                 *)
Slice(s, start) ==
  LET from == IF start < 0
                THEN (IF Len(s) + start < 0 THEN 0 ELSE Len(s) + start)
                ELSE (IF start > Len(s) THEN Len(s) ELSE start)
  IN SubSeq(s, from + 1, Len(s))

Ids(devs) == {devs[i].id : i \in 1..Len(devs)}

(* ---------------------------- rate limiter ----------------------------- *)
(* The limit compared with > instead of >=. *)
RateLimitCall_OffByOne(store, identifier, t, windowMs, maxRequests) ==
  IF identifier \notin DOMAIN store \/ t > store[identifier].resetTime
    THEN [limited |-> FALSE,
          store |-> Put(store, identifier,
                        [count |-> 1, resetTime |-> t + windowMs])]
    ELSE IF store[identifier].count > maxRequests
      THEN [limited |-> TRUE, store |-> store]
      ELSE [limited |-> FALSE,
            store |-> Put(store, identifier,
                          [count |-> store[identifier].count + 1,
                           resetTime |-> store[identifier].resetTime])]

(* A denied call starts the window again. *)
RateLimitCall_DenialExtends(store, identifier, t, windowMs, maxRequests) ==
  IF identifier \notin DOMAIN store \/ t > store[identifier].resetTime
    THEN [limited |-> FALSE,
          store |-> Put(store, identifier,
                        [count |-> 1, resetTime |-> t + windowMs])]
    ELSE IF store[identifier].count >= maxRequests
      THEN [limited |-> TRUE,
            store |-> Put(store, identifier,
                          [count |-> store[identifier].count,
                           resetTime |-> t + windowMs])]
      ELSE [limited |-> FALSE,
            store |-> Put(store, identifier,
                          [count |-> store[identifier].count + 1,
                           resetTime |-> store[identifier].resetTime])]

(* One call of a fixed-window limiter on `store`: the answer and the store *)
(* after the call.                                                         *)
RateLimitCall(store, identifier, t, windowMs, maxRequests) ==
  IF identifier \notin DOMAIN store \/ t > store[identifier].resetTime
    THEN [limited |-> FALSE,
          store |-> Put(store, identifier,
                        [count |-> 1, resetTime |-> t + windowMs])]
    ELSE IF store[identifier].count >= maxRequests
      THEN [limited |-> TRUE, store |-> store]
      ELSE [limited |-> FALSE,
            store |-> Put(store, identifier,
                          [count |-> store[identifier].count + 1,
                           resetTime |-> store[identifier].resetTime])]

isDeviceRegistrationRateLimited(store, identifier, t) ==
  RateLimitCall(store, identifier, t, deviceWindowMs, deviceMaxRequests)

(* isRateLimited of /api/verify-email and of the email relay. *)
isRateLimited(store, identifier, t) ==
  RateLimitCall(store, identifier, t, verifyWindowMs, verifyMaxRequests)

isRateLimitedRelay(store, clientIp, t) ==
  RateLimitCall(store, clientIp, t, relayWindowMs, relayMaxRequests)

userKey(uid) == <<"user", uid>>
ipKey(ip) == <<"ip", ip>>
UserId == 1

(* `isLimited(userKey) || isLimited(ipKey)`: the ip key is only checked,   *)
(* and counted, when the user key was not limited.                         *)
RateLimitBoth(store, uid, ip, t) ==
  LET u == isDeviceRegistrationRateLimited(store, userKey(uid), t)
      i == isDeviceRegistrationRateLimited(u.store, ipKey(ip), t)
  IN IF u.limited THEN u ELSE i

(* --------------------------- device registry --------------------------- *)
AbsentDoc == [exists |-> FALSE, devices |-> <<>>, status |-> "",
              background |-> "", emailVerified |-> FALSE]

deviceData(id, f, t) ==
  [id |-> id, userAgent |-> userAgent(f), clientIP |-> clientIP(f),
   loggedInAt |-> t, lastActiveAt |-> t]

SameFingerprint(d, f) ==
  d.clientIP = clientIP(f) /\ d.userAgent = userAgent(f)


(* The list is never truncated. *)
NewDeviceList_NoCap(existingDevices, id, f, t) ==
  LET NotSame(d) == ~SameFingerprint(d, f)
      otherDevices == SelectSeq(existingDevices, NotSame)
  IN otherDevices \o <<deviceData(id, f, t)>>

(* slice(0, maxDevices - 1): the entries kept are the first ones. *)
NewDeviceList_KeepOldest(existingDevices, id, f, t) ==
  LET NotSame(d) == ~SameFingerprint(d, f)
      otherDevices == SelectSeq(existingDevices, NotSame)
      n == IF Len(otherDevices) < maxDevices - 1 THEN Len(otherDevices)
           ELSE maxDevices - 1
  IN SubSeq(otherDevices, 1, n) \o <<deviceData(id, f, t)>>

(* The entries with the same fingerprint are kept. *)
NewDeviceList_NoDedup(existingDevices, id, f, t) ==
  LET devicesToKeep == Slice(existingDevices, 1 - maxDevices)
  IN devicesToKeep \o <<deviceData(id, f, t)>>

(* New-device path of the transaction, lines 120-135. *)
NewDeviceList(existingDevices, id, f, t) ==
  LET NotSame(d) == ~SameFingerprint(d, f)
      otherDevices == SelectSeq(existingDevices, NotSame)
      devicesToKeep == Slice(otherDevices, 1 - maxDevices)
  IN devicesToKeep \o <<deviceData(id, f, t)>>

(* The matching entry is logged in again and moved to the end. *)
TouchDeviceList_Relogin(existingDevices, id, t) ==
  LET Is(d) == d.id = id
      IsNot(d) == d.id # id
      touched == SelectSeq(existingDevices, Is)
  IN SelectSeq(existingDevices, IsNot)
       \o [i \in 1..Len(touched) |->
            [touched[i] EXCEPT !.lastActiveAt = t, !.loggedInAt = t]]

(* Existing-device path, lines 136-149. *)
TouchDeviceList(existingDevices, id, t) ==
  [i \in 1..Len(existingDevices) |->
     IF existingDevices[i].id = id
       THEN [existingDevices[i] EXCEPT !.lastActiveAt = t]
       ELSE existingDevices[i]]

(* The user document the transaction function writes, from its snapshot. *)
UserDocWrite(snap, id, isNewDevice, f, t) ==
  IF snap.exists
    THEN [snap EXCEPT !.devices =
                        IF isNewDevice
                          THEN NewDeviceList(snap.devices, id, f, t)
                          ELSE TouchDeviceList(snap.devices, id, t),
                      !.status = "online"]
    ELSE [exists |-> TRUE, devices |-> <<deviceData(id, f, t)>>,
          status |-> "online", background |-> "galaxy",
          emailVerified |-> FALSE]

(* The write to users/{uid}/devices/{deviceId}: set() on the new-device    *)
(* path, update() otherwise; update() requires the document to exist.      *)
DeviceDocWritable(col, id, isNewDevice) == isNewDevice \/ id \in DOMAIN col

DeviceDocWrite(col, id, isNewDevice, f, t) ==
  IF isNewDevice THEN Put(col, id, deviceData(id, f, t))
  ELSE Put(col, id, [col[id] EXCEPT !.lastActiveAt = t])


(* The device document is written outside the transaction. *)
AbortedDeviceDocs_Partial(col, id, isNewDevice, f, t) ==
  IF DeviceDocWritable(col, id, isNewDevice)
    THEN DeviceDocWrite(col, id, isNewDevice, f, t)
    ELSE col

(* What a transaction that throws leaves in the sub-collection: its        *)
(* writes are buffered in the transaction and dropped with it.             *)
AbortedDeviceDocs(col, id, isNewDevice, f, t) == col


(* The identity token is not verified. *)
Verdict_NoAuth(body, token) ==
  IF body = "malformed"
    THEN [status |-> 400, error |-> "Invalid request data", logged |-> ""]
  ELSE [status |-> 200, error |-> "", logged |-> ""]

(* ------------------------- requests and answers ------------------------ *)
(* Lines 65-80: the schema check and verifyIdToken. *)
Verdict(body, token) ==
  IF body = "malformed"
    THEN [status |-> 400, error |-> "Invalid request data", logged |-> ""]
  ELSE IF token = "expired"
    THEN [status |-> 401, error |-> "Token expired",
          logged |-> "auth/id-token-expired"]
  ELSE IF token = "invalid"
    THEN [status |-> 500, error |-> "Internal server error",
          logged |-> "auth/argument-error"]
  ELSE [status |-> 200, error |-> "", logged |-> ""]

(* A request and its answer.  logged is what console.error printed. *)
Rejected(p, r, status, error, logged) ==
  [to |-> p, body |-> r.body, token |-> r.token, fp |-> r.f,
   cookie |-> r.cookie, isNewDevice |-> (r.cookie = NoCookie),
   status |-> status, error |-> error,
   logged |-> logged, deviceId |-> Undefined, setCookie |-> NoCookie]

Answered(p, q, status, error, logged, id) ==
  [to |-> p, body |-> q.body, token |-> q.token, fp |-> q.fp,
   cookie |-> q.cookie, isNewDevice |-> q.isNewDevice,
   status |-> status, error |-> error,
   logged |-> logged, deviceId |-> id, setCookie |-> id]

(* The fields of the JSON body of an answer, lines 186-190 and 212-215. *)
ResponseFields(c) ==
  IF c.status = 200 THEN {"success", "deviceId", "message"}
  ELSE {"success", "error"}

NoResponse ==
  [to |-> 1, body |-> "", token |-> "", fp |-> 1, cookie |-> NoCookie,
   isNewDevice |-> FALSE, status |-> 0, error |-> "", logged |-> "",
   deviceId |-> Undefined, setCookie |-> NoCookie]

NoRequest == [body |-> "", token |-> "", deviceId |-> Undefined,
              isNewDevice |-> FALSE, fp |-> 1, cookie |-> NoCookie,
              startDoc |-> AbsentDoc, snapshot |-> AbsentDoc]

NoCall == [limiter |-> "", identifier |-> <<>>, t |-> 0, allowed |-> FALSE,
           nth |-> 0, first |-> 0, seq |-> 0]

(* =================== verification codes: data and functions ============ *)
(* /api/verify-email exists twice: the server variant keeps hashed codes   *)
(* in the Firestore collection verificationCodes, the in-memory variant    *)
(* keeps plain codes in a Map and also issues password-reset codes.        *)
Variants == {"server", "memory"}

verifyTTL == 600          \* 10 * 60 * 1000 ms
resetTTL == 1800          \* 30 * 60 * 1000 ms
maxAttempts == 5          \* attempts >= 5
codeLength == 6           \* z.string().length(6)

Emails == {"a@x.com", "b@x.com"}
NotAnEmail == "a.x.com"
ClientIPs == {1, 2}

(* generateVerificationCode(): a decimal string between "100000" and       *)
(* "999999"; the lowest and the highest stand for the range.               *)
GeneratedCodes == {"100000", "999999"}

(* The codes a caller sends: strings, of six characters to pass the        *)
(* schema; "99999" is one that does not.                                   *)
ShortCode == "99999"
CandidateCodes == GeneratedCodes

(* VERIFICATION_SALT *)
getVerificationSalt == "salt"

(* SHA-256 of `${code}:${email}:${salt}` in hex: a digest of 64 hex digits *)
(* that stands for the string hashed (no two strings of the model share a  *)
(* digest).                                                                *)
hashCode(code, email) ==
  [sha256 |-> code \o ":" \o email \o ":" \o getVerificationSalt]

HexLength(digest) == 64

(* crypto.timingSafeEqual on the bytes of two digests of equal length. *)
timingSafeEqual(a, b) == a.sha256 = b.sha256

(* The reset code stored under the email itself. *)
ResetKey_SameKey(email) == email

ResetKey(email) == "reset:" \o email

(* What a read of a key returns: [exists |-> FALSE] or the record. *)
AbsentRecord == [exists |-> FALSE]
Get(store, key) ==
  IF key \in DOMAIN store THEN store[key] ELSE AbsentRecord
Delete(store, key) == [x \in DOMAIN store \ {key} |-> store[x]]

(* Lines 108-114 of the server variant: the record issue writes. *)
ServerRecord(code, email, expiresAt, t, ip) ==
  [exists |-> TRUE, hashedCode |-> hashCode(code, email),
   expiresAt |-> expiresAt, attempts |-> 0, createdAt |-> t, clientIP |-> ip]

(* Lines 112-116 and 150-154 of the in-memory variant. *)
MemoryRecord(code, expiresAt) ==
  [exists |-> TRUE, code |-> code, expiresAt |-> expiresAt, attempts |-> 0]

(* The transaction function of verifyCode, server variant, lines 151-204,  *)
(* run on the snapshot doc at time t: what it returns, the write it asks   *)
(* for, and whether it came to compare the code.                           *)
(* The attempts compared with > instead of >=. *)
VerifyDecision_SixAttempts(doc, email, code, t) ==
  IF ~doc.exists
    THEN [result |-> FALSE, write |-> "none", attempts |-> 0,
          compared |-> FALSE, why |-> "absent"]
  ELSE IF doc.expiresAt < t
    THEN [result |-> FALSE, write |-> "delete", attempts |-> 0,
          compared |-> FALSE, why |-> "expired"]
  ELSE IF doc.attempts > maxAttempts
    THEN [result |-> FALSE, write |-> "delete", attempts |-> 0,
          compared |-> FALSE, why |-> "attempts"]
  ELSE IF timingSafeEqual(hashCode(code, email), doc.hashedCode)
    THEN [result |-> TRUE, write |-> "delete", attempts |-> 0,
          compared |-> TRUE, why |-> "valid"]
    ELSE [result |-> FALSE, write |-> "update", attempts |-> doc.attempts + 1,
          compared |-> TRUE, why |-> "invalid"]

(* The code compared before the attempts are counted. *)
VerifyDecision_CodeFirst(doc, email, code, t) ==
  IF ~doc.exists
    THEN [result |-> FALSE, write |-> "none", attempts |-> 0,
          compared |-> FALSE, why |-> "absent"]
  ELSE IF doc.expiresAt < t
    THEN [result |-> FALSE, write |-> "delete", attempts |-> 0,
          compared |-> FALSE, why |-> "expired"]
  ELSE IF timingSafeEqual(hashCode(code, email), doc.hashedCode)
    THEN [result |-> TRUE, write |-> "delete", attempts |-> 0,
          compared |-> TRUE, why |-> "valid"]
  ELSE IF doc.attempts >= maxAttempts
    THEN [result |-> FALSE, write |-> "delete", attempts |-> 0,
          compared |-> FALSE, why |-> "attempts"]
    ELSE [result |-> FALSE, write |-> "update", attempts |-> doc.attempts + 1,
          compared |-> TRUE, why |-> "invalid"]

(* The expiry taken a second early. *)
VerifyDecision_ExpiresEarly(doc, email, code, t) ==
  IF ~doc.exists
    THEN [result |-> FALSE, write |-> "none", attempts |-> 0,
          compared |-> FALSE, why |-> "absent"]
  ELSE IF doc.expiresAt <= t + 1
    THEN [result |-> FALSE, write |-> "delete", attempts |-> 0,
          compared |-> FALSE, why |-> "expired"]
  ELSE IF doc.attempts >= maxAttempts
    THEN [result |-> FALSE, write |-> "delete", attempts |-> 0,
          compared |-> FALSE, why |-> "attempts"]
  ELSE IF timingSafeEqual(hashCode(code, email), doc.hashedCode)
    THEN [result |-> TRUE, write |-> "delete", attempts |-> 0,
          compared |-> TRUE, why |-> "valid"]
    ELSE [result |-> FALSE, write |-> "update", attempts |-> doc.attempts + 1,
          compared |-> TRUE, why |-> "invalid"]

(* The attempts checked before the expiry. *)
VerifyDecision_AttemptsFirst(doc, email, code, t) ==
  IF ~doc.exists
    THEN [result |-> FALSE, write |-> "none", attempts |-> 0,
          compared |-> FALSE, why |-> "absent"]
  ELSE IF doc.attempts >= maxAttempts
    THEN [result |-> FALSE, write |-> "delete", attempts |-> 0,
          compared |-> FALSE, why |-> "attempts"]
  ELSE IF doc.expiresAt < t
    THEN [result |-> FALSE, write |-> "delete", attempts |-> 0,
          compared |-> FALSE, why |-> "expired"]
  ELSE LET inputHashedCode == hashCode(code, email)
       IN IF HexLength(inputHashedCode) # HexLength(doc.hashedCode)
            THEN [result |-> FALSE, write |-> "update",
                  attempts |-> doc.attempts + 1,
                  compared |-> FALSE, why |-> "length"]
          ELSE IF timingSafeEqual(inputHashedCode, doc.hashedCode)
            THEN [result |-> TRUE, write |-> "delete", attempts |-> 0,
                  compared |-> TRUE, why |-> "valid"]
            ELSE [result |-> FALSE, write |-> "update",
                  attempts |-> doc.attempts + 1,
                  compared |-> TRUE, why |-> "invalid"]

VerifyDecision(doc, email, code, t) ==
  IF ~doc.exists
    THEN [result |-> FALSE, write |-> "none", attempts |-> 0,
          compared |-> FALSE, why |-> "absent"]
  ELSE IF doc.expiresAt < t
    THEN [result |-> FALSE, write |-> "delete", attempts |-> 0,
          compared |-> FALSE, why |-> "expired"]
  ELSE IF doc.attempts >= maxAttempts
    THEN [result |-> FALSE, write |-> "delete", attempts |-> 0,
          compared |-> FALSE, why |-> "attempts"]
  ELSE LET inputHashedCode == hashCode(code, email)
       IN IF HexLength(inputHashedCode) # HexLength(doc.hashedCode)
            THEN [result |-> FALSE, write |-> "update",
                  attempts |-> doc.attempts + 1,
                  compared |-> FALSE, why |-> "length"]
          ELSE IF timingSafeEqual(inputHashedCode, doc.hashedCode)
            THEN [result |-> TRUE, write |-> "delete", attempts |-> 0,
                  compared |-> TRUE, why |-> "valid"]
            ELSE [result |-> FALSE, write |-> "update",
                  attempts |-> doc.attempts + 1,
                  compared |-> TRUE, why |-> "invalid"]

(* verifyCode of the in-memory variant, lines 183-213, on the record of    *)
(* the Map at time t.                                                      *)
MemoryVerifyDecision(record, code, t) ==
  IF ~record.exists
    THEN [result |-> FALSE, write |-> "none", attempts |-> 0,
          compared |-> FALSE, why |-> "absent"]
  ELSE IF t > record.expiresAt
    THEN [result |-> FALSE, write |-> "delete", attempts |-> 0,
          compared |-> FALSE, why |-> "expired"]
  ELSE IF record.attempts >= maxAttempts
    THEN [result |-> FALSE, write |-> "delete", attempts |-> 0,
          compared |-> FALSE, why |-> "attempts"]
  ELSE IF code = record.code
    THEN [result |-> TRUE, write |-> "delete", attempts |-> 0,
          compared |-> TRUE, why |-> "valid"]
    ELSE [result |-> FALSE, write |-> "update",
          attempts |-> record.attempts + 1,
          compared |-> TRUE, why |-> "invalid"]

(* A failed call also renews the expiry of the record. *)
Written_Renewed(store, key, d) ==
  IF d.write = "delete" THEN Delete(store, key)
  ELSE IF d.write = "update"
    THEN [store EXCEPT ![key] = [@ EXCEPT !.attempts = d.attempts,
                                          !.expiresAt = @ + verifyTTL]]
  ELSE store

(* The write a decision asks for, on the store.  transaction.update and    *)
(* Map.set change the attempts of the record there is.                     *)
Written(store, key, d) ==
  IF d.write = "delete" THEN Delete(store, key)
  ELSE IF d.write = "update"
    THEN [store EXCEPT ![key] = [@ EXCEPT !.attempts = d.attempts]]
  ELSE store

(* transaction.update fails the commit when the document is not there. *)
Writable(store, key, d) == d.write = "update" => key \in DOMAIN store

emailKey(email) == <<"email", email>>

(* Lines 91-96: isRateLimited(emailKey) || isRateLimited(ipKey). *)
(* && written for ||. *)
SendRateLimit_BothLimited(store, email, ip, t) ==
  LET a == isRateLimited(store, emailKey(email), t)
      b == isRateLimited(a.store, ipKey(ip), t)
  IN IF a.limited THEN [limited |-> b.limited, store |-> b.store]
     ELSE [limited |-> FALSE, store |-> a.store]

SendRateLimit(store, email, ip, t) ==
  LET a == isRateLimited(store, emailKey(email), t)
  IN IF a.limited THEN a ELSE isRateLimited(a.store, ipKey(ip), t)

(* The schemas zSendVerificationRequest and zVerifyCodeRequest. *)
ValidEmail(email) == email \in Emails
ValidCode(code) == Len(code) = codeLength

(* A request of /api/verify-email in flight, and the answer to one. *)
NoVRequest ==
  [kind |-> "", email |-> "", code |-> "", ip |-> 1,
   generated |-> "", expiresAt |-> 0, conflict |-> "",
   snapshot |-> AbsentRecord, decision |-> VerifyDecision(AbsentRecord, "", "", 0)]

VRequest(kind, email, code, ip) ==
  [NoVRequest EXCEPT !.kind = kind, !.email = email, !.code = code,
                     !.ip = ip]

NoVResponse ==
  [to |-> 1, kind |-> "", email |-> "", code |-> "", conflict |-> "",
   status |-> 0, success |-> FALSE, why |-> ""]

(* NextResponse.json(body, {status}) to the request q of client p; why is  *)
(* the branch of the code that answered.                                   *)
VAnswer(p, q, status, success, why) ==
  [to |-> p, kind |-> q.kind, email |-> q.email, code |-> q.code,
   conflict |-> q.conflict,
   status |-> status, success |-> success, why |-> why]

(* The requests after a commit of handler p on the record of email: a      *)
(* verifyCode transaction in flight that read the record has read what is  *)
(* no longer there, by an issue or by another consume.                     *)
Overtaken(requests, positions, p, email, by) ==
  [r \in Procs |->
     IF r # p /\ positions[r] = "commit" /\ requests[r].email = email
       THEN [requests[r] EXCEPT !.conflict = by]
     ELSE requests[r]]

(* The status of a failed send: 429 in the server variant (line 238), 500  *)
(* in the in-memory variant (line 246).                                    *)
SendFailureStatus(v) == IF v = "server" THEN 429 ELSE 500

(* The error text of a failed send: lines 226-239 of the server variant,   *)
(* lines 234-247 of the in-memory variant.                                 *)
SendErrorText(v, status) ==
  IF status = 400 THEN "Invalid email address"
  ELSE IF v = "server" THEN "Rate limit exceeded or server error"
  ELSE "Failed to send email. Please try again."

(* What the caller of ?action=send receives: the status and the body. *)
SendResponse(v, r) ==
  [status |-> r.status, success |-> r.success,
   error |-> IF r.success THEN "" ELSE SendErrorText(v, r.status)]

(* The history kept of the code stored last under a key: the code, when    *)
(* and for which client it was issued, how its dispatch ended, and the     *)
(* committed verifyCode calls that found its record.                       *)
Issue(code, t, p) ==
  [code |-> code, issuedAt |-> t, by |-> p, delivered |-> "pending",
   failed |-> 0, compared |-> 0, valid |-> 0]

Consumed(history, key, d) ==
  IF key \notin DOMAIN history \/ d.why = "absent" THEN history
  ELSE [history EXCEPT ![key] =
          [@ EXCEPT !.failed = @ + (IF d.write = "update" THEN 1 ELSE 0),
                    !.compared = @ + (IF d.compared THEN 1 ELSE 0),
                    !.valid = @ + (IF d.result THEN 1 ELSE 0)]]

NoCodes ==
  /\ variant = "none"
  /\ verificationCodes = << >>
  /\ verificationStore = << >>
  /\ vpc = [p \in Procs |-> "idle"]
  /\ vreq = [p \in Procs |-> NoVRequest]
  /\ vresp = NoVResponse
  /\ vops = 0
  /\ outbox = 0
  /\ issued = << >>

(* ------------------------------ email relay ---------------------------- *)
(* The two routes that relay mail: src/unnamed/part_001, which checks a    *)
(* signature, and src/src/app/api/send-email/route.ts.                     *)
RelayVariants == {"signed", "open"}
relayFreshness == 300          \* 5 * 60 * 1000 ms, line 139
hmacHexLength == 64            \* hex digits of an HMAC-SHA256 digest
getServerSecret == "EMAIL_HMAC_SECRET"
RelayClientIPs == {"10.0.0.1", "10.0.0.2"}

(* An object is the sequence of its <<key, value>> pairs, in the order in  *)
(* which its keys were inserted.                                           *)
Keys(obj) == {obj[i][1] : i \in 1..Len(obj)}
Field(obj, key) == obj[CHOOSE i \in 1..Len(obj) : obj[i][1] = key][2]
SetField(obj, key, value) ==
  [i \in 1..Len(obj) |-> IF obj[i][1] = key THEN <<key, value>> ELSE obj[i]]

(* const { hmac, timestamp, ...emailData } = obj: the other keys, in the   *)
(* order they have in obj.                                                 *)
Omit(obj, keys) ==
  LET Kept(f) == f[1] \notin keys
  IN SelectSeq(obj, Kept)

(* JSON.stringify(obj): the keys with their values, in insertion order;    *)
(* nothing is sorted.                                                      *)
Stringify(obj) == [i \in 1..Len(obj) |-> <<obj[i][1], ":", obj[i][2]>>]

(* crypto.createHmac('sha256', secret).update(payload).digest('hex'): a    *)
(* digest stands for the secret and the payload it was computed from; a    *)
(* signature string has a length and a number of leading characters that   *)
(* are hex digits, in a digest all of them.                                *)
HmacSha256(secret, payload) ==
  [secret |-> secret, payload |-> payload, length |-> hmacHexLength,
   hex |-> hmacHexLength]

(* Buffer.from(string, 'hex'): the bytes of the leading pairs of hex       *)
(* digits; decoding stops at the first character that is none.             *)
BufferFromHex(string) ==
  [secret |-> string.secret, payload |-> string.payload,
   byteLength |-> string.hex \div 2]

(* crypto.timingSafeEqual(a, b): throws a RangeError when the byte lengths *)
(* differ.                                                                 *)
timingSafeEqualBuffers(a, b) ==
  IF a.byteLength # b.byteLength THEN [raised |-> TRUE, result |-> FALSE]
  ELSE [raised |-> FALSE,
        result |-> a.secret = b.secret /\ a.payload = b.payload]

(* The schemas of the two routes: zod parses the keys of the schema in the *)
(* order of the schema, strips every other key, and fills in the default   *)
(* of encoding.                                                            *)
SmtpKeys == <<"to", "cc", "subject", "text", "html", "attachments">>
SignedKeys == SmtpKeys \o <<"hmac", "timestamp">>
AttachmentKeys == <<"filename", "content", "contentType", "encoding">>
DefaultEncoding == "base64"

InSchemaOrder(obj, keys) ==
  LET Present(k) == k \in Keys(obj)
      present == SelectSeq(keys, Present)
  IN [i \in 1..Len(present) |-> <<present[i], Field(obj, present[i])>>]

ParseAttachment(a) ==
  InSchemaOrder(IF "encoding" \in Keys(a) THEN a
                ELSE a \o << <<"encoding", DefaultEncoding>> >>,
                AttachmentKeys)

ParseField(f) ==
  IF f[1] = "attachments"
    THEN <<f[1], [i \in 1..Len(f[2]) |-> ParseAttachment(f[2][i])]>>
  ELSE f

zSafeParse(body, keys) ==
  LET required == {"to", "subject"}
                    \cup ({"hmac", "timestamp"}
                            \cap {keys[i] : i \in 1..Len(keys)})
      ordered == InSchemaOrder(body, keys)
  IN [success |-> /\ required \subseteq Keys(body)
                  /\ ValidEmail(Field(body, "to")),
      data |-> [i \in 1..Len(ordered) |-> ParseField(ordered[i])]]

Abs(n) == IF n < 0 THEN -n ELSE n

(* Line 139, with the future timestamps let through. *)
Expired_PastOnly(t, timestamp) == t - timestamp > relayFreshness

(* Line 139: Math.abs(now - timestamp) > 5 * 60 * 1000. *)
Expired(t, timestamp) == Abs(t - timestamp) > relayFreshness

(* Lines 42-58, with digests of equal length taken for equal. *)
verifyHMAC_LengthOnly(message, receivedHmac) ==
  LET payload == Stringify(message)
      expectedHmac == HmacSha256(getServerSecret, payload)
  IN [raised |-> FALSE,
      result |-> expectedHmac.length = receivedHmac.length]

(* Lines 42-58 without the try and catch: what timingSafeEqual throws      *)
(* leaves verifyHMAC.                                                      *)
verifyHMAC_Uncaught(message, receivedHmac) ==
  LET payload == Stringify(message)
      expectedHmac == HmacSha256(getServerSecret, payload)
  IN IF expectedHmac.length # receivedHmac.length
       THEN [raised |-> FALSE, result |-> FALSE]
     ELSE timingSafeEqualBuffers(BufferFromHex(expectedHmac),
                                 BufferFromHex(receivedHmac))

(* Lines 42-58: what verifyHMAC returns, and whether an exception leaves   *)
(* it; the catch of line 54 turns what the body throws into false.         *)
verifyHMAC(message, receivedHmac) ==
  LET payload == Stringify(message)
      expectedHmac == HmacSha256(getServerSecret, payload)
      compared == timingSafeEqualBuffers(BufferFromHex(expectedHmac),
                                         BufferFromHex(receivedHmac))
  IN IF expectedHmac.length # receivedHmac.length
       THEN [raised |-> FALSE, result |-> FALSE]
     ELSE IF compared.raised THEN [raised |-> FALSE, result |-> FALSE]
     ELSE compared

createEmailHMAC(message) == HmacSha256(getServerSecret, Stringify(message))

(* A relay request, and the answer to one: message is what the signer      *)
(* signed, body what the relay received, sent what it handed to            *)
(* sendEmailServer.                                                        *)
NoRResponse ==
  [ip |-> "", message |-> << >>, body |-> << >>, status |-> 0,
   success |-> FALSE, error |-> "", reached |-> FALSE, sent |-> << >>]

RAnswer(ip, message, body, status, success, error) ==
  [NoRResponse EXCEPT !.ip = ip, !.message = message, !.body = body,
                      !.status = status, !.success = success,
                      !.error = error]

NoRelay ==
  /\ relay = "none"
  /\ rresp = NoRResponse
  /\ relaySends = 0
  /\ rops = 0

(* No page is open: nobody is signed in and no account exists. *)
NoUser == ""
NoFirebase == [currentUser |-> NoUser, accounts |-> << >>, users |-> << >>,
               devices |-> {}]
NoSignup == [pc |-> "closed"]
NoGuard == [screen |-> "closed"]
NoPages ==
  /\ firebase = NoFirebase
  /\ signup = NoSignup
  /\ guard = NoGuard

(* The state after n registrations, one after the other, each without a   *)
(* cookie and from a fingerprint not seen before, deviceMaxRequests of     *)
(* them per rate-limit window: client 1 sent the first, client 2 the rest. *)
WarmTime(k) ==
  IF k = 0 THEN 0 ELSE ((k - 1) \div deviceMaxRequests) * (deviceWindowMs + 1)

RECURSIVE WarmDoc(_)
WarmDoc(k) ==
  IF k = 0 THEN AbsentDoc
  ELSE UserDocWrite(WarmDoc(k - 1), k, TRUE, k, WarmTime(k))

RECURSIVE WarmCol(_)
WarmCol(k) ==
  IF k = 0 THEN << >>
  ELSE DeviceDocWrite(WarmCol(k - 1), k, TRUE, k, WarmTime(k))

RECURSIVE WarmStore(_)
WarmStore(k) ==
  IF k = 0 THEN << >>
  ELSE RateLimitBoth(WarmStore(k - 1), UserId, clientIP(k), WarmTime(k)).store

InitSizes == {0, maxDevices}

InitAfter(n) ==
  /\ now = WarmTime(n)
  /\ deviceRateLimitStore = WarmStore(n)
  /\ userDoc = WarmDoc(n)
  /\ devicesCol = WarmCol(n)
  /\ pc = [p \in Procs |-> "idle"]
  /\ req = [p \in Procs |-> NoRequest]
  /\ nextId = n + 1
  /\ jar = [p \in Procs |-> IF n = 0 THEN NoCookie
                            ELSE IF p = 1 THEN 1
                            ELSE IF n > 1 THEN n ELSE NoCookie]
  /\ resp = NoResponse
  /\ sent = 0
  /\ ticks = 0
  /\ usedFP = n
  /\ lastStarted = 1
  /\ concurrent = 1
  /\ verifyRateLimitStore = << >>
  /\ relayRateLimitStore = << >>
  /\ rlWindow = << >>
  /\ rlLast = NoCall
  /\ NoCodes
  /\ NoRelay
  /\ NoPages

Init == \E n \in InitSizes : InitAfter(n)

(* ------------------------------ the clock ------------------------------ *)
TickSteps == {deviceWindowMs + 1}

Tick ==
  /\ UNCHANGED <<limiterVars, codeVars, pageVars, relayVars>>
  /\ ticks < MaxTicks
  /\ ticks' = ticks + 1
  /\ \E d \in TickSteps : now' = now + d
  /\ UNCHANGED <<deviceRateLimitStore, userDoc, devicesCol, pc, req, nextId,
                 jar, resp, sent, usedFP, lastStarted, concurrent>>

(* ------------------- POST /api/device, lines 62-216 -------------------- *)
(* What a client can send: a body that fails the schema, or a well-formed *)
(* body with an identity token that is valid, invalid or expired.  A valid *)
(* request comes without a cookie from some fingerprint (fingerprints are  *)
(* opaque: the one seen first, the one seen last or the next unused one),  *)
(* or with a cookie: the one the browser holds, sent from the fingerprint  *)
(* it was issued to, or else one that was not issued for this user.        *)
Fingerprints ==
  {f \in 1..NumFP : f <= usedFP + 1 /\ (f = 1 \/ f >= usedFP)}

FingerprintOf(id) ==
  IF id \in DOMAIN devicesCol
    THEN CHOOSE f \in 1..NumFP : SameFingerprint(devicesCol[id], f)
    ELSE 1

Requests(p) ==
  {[body |-> "ok", token |-> "valid", f |-> f, cookie |-> NoCookie] :
     f \in Fingerprints}
  \cup {[body |-> "ok", token |-> "valid", f |-> FingerprintOf(c),
         cookie |-> c] :
            c \in IF jar[p] = NoCookie THEN {ForeignCookie} ELSE {jar[p]}}
  \cup {[body |-> "ok", token |-> t, f |-> 1, cookie |-> jar[p]] :
          t \in {"invalid", "expired"}}
  \cup {[body |-> "malformed", token |-> "valid", f |-> 1, cookie |-> jar[p]]}

(* Lines 62-100: parse, authenticate, rate-limit, pick the device id. *)
PostStart(p, r) ==
  /\ UNCHANGED <<limiterVars, codeVars, pageVars, relayVars>>
  /\ pc[p] = "idle"
  /\ sent < MaxReq
  /\ sent' = sent + 1
  /\ UNCHANGED <<now, ticks, userDoc, devicesCol, jar>>
  /\ LET v == Verdict(r.body, r.token)
         rl == RateLimitBoth(deviceRateLimitStore, UserId, clientIP(r.f), now)
         existingDeviceId == r.cookie
         isNewDevice == existingDeviceId = NoCookie
         deviceId == IF isNewDevice THEN nextId ELSE existingDeviceId
     IN IF v.status # 200
          THEN /\ resp' = Rejected(p, r, v.status, v.error, v.logged)
               /\ UNCHANGED <<deviceRateLimitStore, pc, req, nextId, usedFP,
                              lastStarted, concurrent>>
        ELSE /\ deviceRateLimitStore' = rl.store
             /\ usedFP' = IF r.f > usedFP THEN r.f ELSE usedFP
             /\ IF rl.limited
                  THEN /\ resp' = Rejected(p, r, 429, "Rate limit exceeded", "")
                       /\ UNCHANGED <<pc, req, nextId, lastStarted,
                                      concurrent>>
                  ELSE /\ pc' = [pc EXCEPT ![p] = "txn"]
                       /\ req' = [req EXCEPT ![p] =
                                    [body |-> r.body, token |-> r.token,
                                     deviceId |-> deviceId,
                                     isNewDevice |-> isNewDevice,
                                     fp |-> r.f, cookie |-> r.cookie,
                                     startDoc |-> userDoc,
                                     snapshot |-> AbsentDoc]]
                       /\ nextId' = IF isNewDevice THEN nextId + 1 ELSE nextId
                       /\ lastStarted' = p
                       /\ concurrent' = IF pc[Other(p)] = "idle" THEN 1
                                        ELSE IF concurrent = 1 THEN 2 ELSE 3
                       /\ UNCHANGED resp

(* Line 104: transaction.get(userRef). *)
TxnGet(p) ==
  /\ UNCHANGED <<limiterVars, codeVars, pageVars, relayVars>>
  /\ pc[p] = "txn"
  /\ req' = [req EXCEPT ![p].snapshot = userDoc]
  /\ pc' = [pc EXCEPT ![p] = "commit"]
  /\ UNCHANGED <<now, deviceRateLimitStore, userDoc, devicesCol, nextId, jar,
                 resp, sent, ticks, usedFP, lastStarted, concurrent>>


(* The check left out: a commit overwrites what was written since the read. *)
SnapshotCurrent_Blind(snapshot, doc) == TRUE

(* runTransaction, line 102: the store commits the writes of a transaction *)
(* only if the document it read has not changed since.                     *)
SnapshotCurrent(snapshot, doc) == snapshot = doc

(* The snapshot is stale: the store re-runs the transaction function. *)
TxnRetry(p) ==
  /\ UNCHANGED <<limiterVars, codeVars, pageVars, relayVars>>
  /\ pc[p] = "commit"
  /\ ~SnapshotCurrent(req[p].snapshot, userDoc)
  /\ pc' = [pc EXCEPT ![p] = "txn"]
  /\ UNCHANGED <<now, deviceRateLimitStore, userDoc, devicesCol, req, nextId,
                 jar, resp, sent, ticks, usedFP, lastStarted, concurrent>>

(* Lines 106-201: both writes commit, then the response and the cookie. *)
TxnCommit(p) ==
  /\ UNCHANGED <<limiterVars, codeVars, pageVars, relayVars>>
  /\ pc[p] = "commit"
  /\ SnapshotCurrent(req[p].snapshot, userDoc)
  /\ DeviceDocWritable(devicesCol, req[p].deviceId, req[p].isNewDevice)
  /\ userDoc' = UserDocWrite(req[p].snapshot, req[p].deviceId,
                             req[p].isNewDevice, req[p].fp, now)
  /\ devicesCol' = DeviceDocWrite(devicesCol, req[p].deviceId,
                                  req[p].isNewDevice, req[p].fp, now)
  /\ resp' = Answered(p, req[p], 200, "", "", req[p].deviceId)
  /\ jar' = [jar EXCEPT ![p] = req[p].deviceId]
  /\ pc' = [pc EXCEPT ![p] = "idle"]
  /\ UNCHANGED <<now, deviceRateLimitStore, req, nextId, sent, ticks, usedFP,
                 lastStarted, concurrent>>

(* Why a transaction can throw: update() of a device document that does    *)
(* not exist, or the store giving up (contention, unavailable).            *)
FailureCauses(p) ==
  {"unavailable"}
  \cup (IF DeviceDocWritable(devicesCol, req[p].deviceId, req[p].isNewDevice)
          THEN {} ELSE {"not-found"})

(* Lines 202-216: the transaction throws; the handler answers 500. *)
TxnFail(p) ==
  /\ UNCHANGED <<limiterVars, codeVars, pageVars, relayVars>>
  /\ pc[p] = "commit"
  /\ \E cause \in FailureCauses(p) :
       resp' = Rejected(p, [body |-> req[p].body, token |-> req[p].token,
                            f |-> req[p].fp, cookie |-> req[p].cookie],
                        500, "Internal server error", cause)
  /\ devicesCol' = AbortedDeviceDocs(devicesCol, req[p].deviceId,
                                     req[p].isNewDevice, req[p].fp, now)
  /\ pc' = [pc EXCEPT ![p] = "idle"]
  /\ UNCHANGED <<now, deviceRateLimitStore, userDoc, req, nextId, jar, sent,
                 ticks, usedFP, lastStarted, concurrent>>

Post ==
  \E p \in Procs :
    \/ \E r \in Requests(p) : PostStart(p, r)
    \/ TxnGet(p)
    \/ TxnRetry(p)
    \/ TxnCommit(p)
    \/ TxnFail(p)

(* ------------- login page, onSubmit / handleGoogleSignIn --------------- *)
(* The entry the login page stores: no fingerprint, no last-active time,   *)
(* and the login time read from the client's clock.                        *)
loginDeviceData(id, t) ==
  [id |-> id, userAgent |-> Undefined, clientIP |-> Undefined,
   loggedInAt |-> t, lastActiveAt |-> Undefined]


(* The entry is appended without removing the one with the same id. *)
LoginDocWrite_NoFilter(snap, id, t) ==
  IF ~snap.exists
    THEN [exists |-> TRUE, devices |-> <<loginDeviceData(id, t)>>,
          status |-> "online", background |-> "galaxy",
          emailVerified |-> FALSE]
    ELSE [snap EXCEPT !.devices = snap.devices \o <<loginDeviceData(id, t)>>,
                      !.status = "online"]

(* Lines 77-133: the transaction of the login page. *)
LoginDocWrite(snap, id, t) ==
  IF ~snap.exists
    THEN [exists |-> TRUE, devices |-> <<loginDeviceData(id, t)>>,
          status |-> "online", background |-> "galaxy",
          emailVerified |-> FALSE]
    ELSE LET NotMe(d) == d.id # id
             otherDevices == SelectSeq(snap.devices, NotMe)
         IN [snap EXCEPT !.devices = otherDevices \o <<loginDeviceData(id, t)>>,
                         !.status = "online",
                         !.background = IF snap.background = "" THEN "galaxy"
                                        ELSE snap.background]

(* new Date() on the client: the server's time, or a clock that is behind. *)
ClientTimes == {now, 0}

(* Lines 71-147: the transaction, then setDoc of                           *)
(* users/{uid}/devices/{deviceId} with the server's time.                  *)
LoginSubmit(id) ==
  /\ UNCHANGED <<limiterVars, codeVars, pageVars, relayVars>>
  /\ sent < MaxReq
  /\ sent' = sent + 1
  /\ \E t \in ClientTimes : userDoc' = LoginDocWrite(userDoc, id, t)
  /\ devicesCol' = Put(devicesCol, id, loginDeviceData(id, now))
  /\ UNCHANGED <<now, deviceRateLimitStore, pc, req, nextId, jar, resp,
                 ticks, usedFP, lastStarted, concurrent>>

Login == \E id \in LoginIds : LoginSubmit(id)

NextEndpoint == Tick \/ Post

SpecEndpoint == Init /\ [][NextEndpoint]_vars

Next == Tick \/ Post \/ Login

Spec == Init /\ [][Next]_vars

(* ------------------------ the limiters on their own -------------------- *)
Limiters == {"device", "verify", "relay"}
WindowOf(l) == IF l = "device" THEN deviceWindowMs
               ELSE IF l = "verify" THEN verifyWindowMs ELSE relayWindowMs
MaxRequestsOf(l) == IF l = "device" THEN deviceMaxRequests
                    ELSE IF l = "verify" THEN verifyMaxRequests
                    ELSE relayMaxRequests

LimiterIdentifiers == {ipKey(1), ipKey(2)}

(* The clock advances by a second, to the last second of a one-minute      *)
(* window, or by the rest of a five-minute window.                         *)
LimiterTickSteps == {1, verifyWindowMs - 1, deviceWindowMs - verifyWindowMs}

LimiterTick ==
  /\ ticks < MaxLimiterTicks
  /\ ticks' = ticks + 1
  /\ \E d \in LimiterTickSteps : now' = now + d
  /\ UNCHANGED <<deviceRateLimitStore, registryVars, limiterVars, codeVars,
                 pageVars,
                 relayVars>>

(* The call recorded: it is the nth call for its identifier since the call *)
(* at time first, which is the first call for the identifier or the first  *)
(* one later than a window after the previous such call.                   *)
Recorded(l, identifier, allowed) ==
  LET k == <<l, identifier>>
      fresh == k \notin DOMAIN rlWindow
                 \/ now > rlWindow[k].first + WindowOf(l)
      a == IF allowed THEN 1 ELSE 0
      w == IF fresh THEN [first |-> now, calls |-> 1, allowed |-> a]
           ELSE [first |-> rlWindow[k].first, calls |-> rlWindow[k].calls + 1,
                 allowed |-> rlWindow[k].allowed + a]
  IN /\ rlWindow' = Put(rlWindow, k, w)
     /\ rlLast' = [limiter |-> l, identifier |-> identifier, t |-> now,
                   allowed |-> allowed, nth |-> w.calls, first |-> w.first,
                   seq |-> rlLast.seq + 1]

LimiterCall(l, identifier) ==
  /\ rlLast.seq < MaxCalls
  /\ LET r == IF l = "device"
                THEN isDeviceRegistrationRateLimited(deviceRateLimitStore,
                                                     identifier, now)
              ELSE IF l = "verify"
                THEN isRateLimited(verifyRateLimitStore, identifier, now)
              ELSE isRateLimitedRelay(relayRateLimitStore, identifier, now)
     IN /\ deviceRateLimitStore' =
             IF l = "device" THEN r.store ELSE deviceRateLimitStore
        /\ verifyRateLimitStore' =
             IF l = "verify" THEN r.store ELSE verifyRateLimitStore
        /\ relayRateLimitStore' =
             IF l = "relay" THEN r.store ELSE relayRateLimitStore
        /\ Recorded(l, identifier, ~r.limited)
  /\ UNCHANGED <<now, ticks, registryVars, codeVars, pageVars, relayVars>>

(* The three limiters share nothing: a run calls one of them. *)
NextLimiter ==
  \/ LimiterTick
  \/ \E identifier \in LimiterIdentifiers :
       LimiterCall(rlLast.limiter, identifier)

InitLimiter ==
  \E l \in Limiters :
    /\ now = 0
    /\ deviceRateLimitStore = << >>
    /\ userDoc = AbsentDoc
    /\ devicesCol = << >>
    /\ pc = [p \in Procs |-> "idle"]
    /\ req = [p \in Procs |-> NoRequest]
    /\ nextId = 1
    /\ jar = [p \in Procs |-> NoCookie]
    /\ resp = NoResponse
    /\ sent = 0
    /\ ticks = 0
    /\ usedFP = 0
    /\ lastStarted = 1
    /\ concurrent = 1
    /\ verifyRateLimitStore = << >>
    /\ relayRateLimitStore = << >>
    /\ rlWindow = << >>
    /\ rlLast = [NoCall EXCEPT !.limiter = l]
    /\ NoCodes
    /\ NoRelay
    /\ NoPages

SpecLimiter == InitLimiter /\ [][NextLimiter]_vars

(* The limiters under calls that never cease.  Of the history only this is *)
(* kept: for an identifier that was denied and not allowed since, the      *)
(* reset time its window had at the first of these denials; and with the   *)
(* last call, the reset time it had waited for.                            *)
LiveRecorded(l, identifier, allowed) ==
  LET k == <<l, identifier>>
      waiting == k \in DOMAIN rlWindow
  IN /\ rlWindow' =
          IF allowed THEN [x \in DOMAIN rlWindow \ {k} |-> rlWindow[x]]
          ELSE IF waiting THEN rlWindow
          ELSE Put(rlWindow, k,
                   [until |-> (IF l = "device" THEN deviceRateLimitStore
                               ELSE IF l = "verify" THEN verifyRateLimitStore
                               ELSE relayRateLimitStore)[identifier].resetTime])
     /\ rlLast' = [limiter |-> l, identifier |-> identifier, t |-> now,
                   allowed |-> allowed, nth |-> 0,
                   first |-> IF waiting THEN rlWindow[k].until ELSE 0,
                   seq |-> 0]

LiveCall(l, identifier) ==
  /\ LET r == IF l = "device"
                THEN isDeviceRegistrationRateLimited(deviceRateLimitStore,
                                                     identifier, now)
              ELSE IF l = "verify"
                THEN isRateLimited(verifyRateLimitStore, identifier, now)
              ELSE isRateLimitedRelay(relayRateLimitStore, identifier, now)
     IN /\ deviceRateLimitStore' =
             IF l = "device" THEN r.store ELSE deviceRateLimitStore
        /\ verifyRateLimitStore' =
             IF l = "verify" THEN r.store ELSE verifyRateLimitStore
        /\ relayRateLimitStore' =
             IF l = "relay" THEN r.store ELSE relayRateLimitStore
        /\ LiveRecorded(l, identifier, ~r.limited)
  /\ UNCHANGED <<now, ticks, registryVars, codeVars, pageVars, relayVars>>

NextLimiterLive ==
  \/ LimiterTick
  \/ \E identifier \in LimiterIdentifiers :
       LiveCall(rlLast.limiter, identifier)

(* Time keeps advancing, while the run has ticks left, and every           *)
(* identifier keeps calling.                                               *)
SpecLimiterLive ==
  /\ InitLimiter
  /\ [][NextLimiterLive]_vars
  /\ WF_vars(LimiterTick)
  /\ \A identifier \in LimiterIdentifiers :
       WF_vars(LiveCall(rlLast.limiter, identifier))

(* ------------------------- /api/verify-email --------------------------- *)
notCodeVars == <<deviceRateLimitStore, registryVars, relayRateLimitStore,
                 rlWindow, rlLast, relayVars, pageVars>>

(* The clock is read at time 0, then a second before a code issued at 0    *)
(* expires, and every second from then on.  A request is served within a   *)
(* second: the clock advances between requests.                            *)
CodeTickStep(k) == IF k = 0 THEN verifyTTL - 1 ELSE 1

CodeTick ==
  /\ ticks < MaxCodeTicks
  /\ \A p \in Procs : vpc[p] = "idle"
  /\ ticks' = ticks + 1
  /\ now' = now + CodeTickStep(ticks)
  /\ UNCHANGED <<notCodeVars, verifyRateLimitStore, codeVars>>

(* The handler invocations are interchangeable: a request is served by the *)
(* first that is free.                                                     *)
Free(p) == /\ vpc[p] = "idle"
           /\ \A r \in Procs : r < p => vpc[r] # "idle"

(* POST ?action=send, server variant, up to the transaction: lines 222-231 *)
(* and 88-100.                                                             *)
SendStart(p, email, ip) ==
  /\ variant = "server" /\ Free(p) /\ vops < MaxOps
  /\ vops' = vops + 1
  /\ LET q == VRequest("send", email, "", ip)
         rl == SendRateLimit(verifyRateLimitStore, email, ip, now)
     IN IF ~ValidEmail(email)
          THEN /\ vresp' = VAnswer(p, q, 400, FALSE, "invalid")
               /\ UNCHANGED <<verifyRateLimitStore, vpc, vreq>>
        ELSE /\ verifyRateLimitStore' = rl.store
             /\ IF rl.limited
                  THEN /\ vresp' = VAnswer(p, q, 429, FALSE, "rate-limited")
                       /\ UNCHANGED <<vpc, vreq>>
                  ELSE /\ \E code \in GeneratedCodes :
                            vreq' = [vreq EXCEPT ![p] =
                                       [q EXCEPT !.generated = code,
                                                 !.expiresAt = now + verifyTTL]]
                       /\ vpc' = [vpc EXCEPT ![p] = "set"]
                       /\ UNCHANGED vresp
  /\ UNCHANGED <<now, ticks, notCodeVars, variant, verificationCodes,
                 verificationStore, outbox, issued>>

(* A record already stored under the email is kept. *)
SendCommit_KeepFirst(p) ==
  /\ variant = "server" /\ vpc[p] = "set"
  /\ LET q == vreq[p]
     IN /\ verificationCodes' =
             IF q.email \in DOMAIN verificationCodes THEN verificationCodes
             ELSE Put(verificationCodes, q.email,
                      ServerRecord(q.generated, q.email, q.expiresAt, now,
                                   q.ip))
        /\ issued' = Put(issued, q.email, Issue(q.generated, now, p))
        /\ vreq' = Overtaken(vreq, vpc, p, q.email, "issue")
  /\ vpc' = [vpc EXCEPT ![p] = "mail"]
  /\ UNCHANGED <<now, ticks, notCodeVars, verifyRateLimitStore, variant,
                 verificationStore, vresp, vops, outbox>>

(* Lines 105-115: the transaction that sets the record commits. *)
SendCommit(p) ==
  /\ variant = "server" /\ vpc[p] = "set"
  /\ LET q == vreq[p]
     IN /\ verificationCodes' =
             Put(verificationCodes, q.email,
                 ServerRecord(q.generated, q.email, q.expiresAt, now, q.ip))
        /\ issued' = Put(issued, q.email, Issue(q.generated, now, p))
        /\ vreq' = Overtaken(vreq, vpc, p, q.email, "issue")
  /\ vpc' = [vpc EXCEPT ![p] = "mail"]
  /\ UNCHANGED <<now, ticks, notCodeVars, verifyRateLimitStore, variant,
                 verificationStore, vresp, vops, outbox>>

(* Lines 140-143 and 235-239: the transaction throws. *)
SendCommitFail(p) ==
  /\ variant = "server" /\ vpc[p] = "set"
  /\ vresp' = VAnswer(p, vreq[p], 429, FALSE, "unavailable")
  /\ vpc' = [vpc EXCEPT ![p] = "idle"]
  /\ vreq' = [vreq EXCEPT ![p] = NoVRequest]
  /\ UNCHANGED <<now, ticks, notCodeVars, verifyRateLimitStore, variant,
                 verificationCodes, verificationStore, vops, outbox,
                 issued>>

(* sendEmailDirectly and the answer of send or reset-password: the mail    *)
(* service accepts the mail, or it refuses it or cannot be reached.        *)
MailOutcomes == {"ok", "failed"}

Dispatch_Rollback(p, outcome) ==
  /\ vpc[p] = "mail"
  /\ outbox' = outbox + 1
  /\ LET q == vreq[p]
         key == IF q.kind = "reset" THEN ResetKey(q.email) ELSE q.email
         ok == outcome = "ok"
     IN /\ vresp' = IF ok THEN VAnswer(p, q, 200, TRUE, outcome)
                    ELSE IF q.kind = "reset"
                      THEN VAnswer(p, q, 200, FALSE, outcome)
                    ELSE VAnswer(p, q, SendFailureStatus(variant), FALSE,
                                 outcome)
        /\ issued' = IF key \in DOMAIN issued /\ issued[key].by = p
                       THEN [issued EXCEPT ![key].delivered = outcome]
                     ELSE issued
        /\ verificationCodes' = IF ok THEN verificationCodes
                                ELSE Delete(verificationCodes, key)
        /\ verificationStore' = IF ok THEN verificationStore
                                ELSE Delete(verificationStore, key)
  /\ vpc' = [vpc EXCEPT ![p] = "idle"]
  /\ vreq' = [vreq EXCEPT ![p] = NoVRequest]
  /\ UNCHANGED <<now, ticks, notCodeVars, verifyRateLimitStore, variant,
                 vops>>

Dispatch(p, outcome) ==
  /\ vpc[p] = "mail"
  /\ outbox' = outbox + 1
  /\ LET q == vreq[p]
         key == IF q.kind = "reset" THEN ResetKey(q.email) ELSE q.email
         ok == outcome = "ok"
     IN /\ vresp' = IF ok THEN VAnswer(p, q, 200, TRUE, outcome)
                    ELSE IF q.kind = "reset"
                      THEN VAnswer(p, q, 200, FALSE, outcome)
                    ELSE VAnswer(p, q, SendFailureStatus(variant), FALSE,
                                 outcome)
        /\ issued' = IF key \in DOMAIN issued /\ issued[key].by = p
                       THEN [issued EXCEPT ![key].delivered = outcome]
                     ELSE issued
  /\ vpc' = [vpc EXCEPT ![p] = "idle"]
  /\ vreq' = [vreq EXCEPT ![p] = NoVRequest]
  /\ UNCHANGED <<now, ticks, notCodeVars, verifyRateLimitStore, variant,
                 verificationCodes, verificationStore, vops>>

(* POST ?action=verify, server variant, up to the first run of the         *)
(* transaction function: lines 245-257 and 146-204.                        *)
VerifyStart(p, email, code) ==
  /\ variant = "server" /\ Free(p) /\ vops < MaxOps
  /\ vops' = vops + 1
  /\ LET q == VRequest("verify", email, code, 1)
         doc == Get(verificationCodes, email)
     IN IF ~ValidEmail(email) \/ ~ValidCode(code)
          THEN /\ vresp' = VAnswer(p, q, 400, FALSE, "invalid")
               /\ UNCHANGED <<vpc, vreq>>
        ELSE /\ vreq' = [vreq EXCEPT ![p] =
                          [q EXCEPT !.snapshot = doc,
                                    !.decision =
                                      VerifyDecision(doc, email, code, now)]]
             /\ vpc' = [vpc EXCEPT ![p] = "commit"]
             /\ UNCHANGED vresp
  /\ UNCHANGED <<now, ticks, notCodeVars, verifyRateLimitStore, variant,
                 verificationCodes, verificationStore, outbox, issued>>

(* Lines 151-204: the transaction function runs again on what it reads. *)
VerifyGet(p) ==
  /\ variant = "server" /\ vpc[p] = "txn"
  /\ LET doc == Get(verificationCodes, vreq[p].email)
     IN vreq' = [vreq EXCEPT ![p].snapshot = doc,
                             ![p].decision =
                               VerifyDecision(doc, vreq[p].email,
                                              vreq[p].code, now)]
  /\ vpc' = [vpc EXCEPT ![p] = "commit"]
  /\ UNCHANGED <<now, ticks, notCodeVars, verifyRateLimitStore, variant,
                 verificationCodes, verificationStore, vresp, vops, outbox,
                 issued>>

(* The transaction commits on the record it read (a transaction that only  *)
(* read commits as of its read), and POST answers, lines 257-259.          *)
VerifyCommit(p) ==
  /\ variant = "server" /\ vpc[p] = "commit"
  /\ LET q == vreq[p]
         d == q.decision
     IN /\ \/ SnapshotCurrent(q.snapshot, Get(verificationCodes, q.email))
           \/ d.write = "none"
        /\ Writable(verificationCodes, q.email, d)
        /\ verificationCodes' = Written(verificationCodes, q.email, d)
        /\ issued' = Consumed(issued, q.email, d)
        /\ vresp' = VAnswer(p, q, 200, d.result, d.why)
        /\ vreq' = [IF d.write = "none" THEN vreq
                     ELSE Overtaken(vreq, vpc, p, q.email, "consume")
                      EXCEPT ![p] = NoVRequest]
  /\ vpc' = [vpc EXCEPT ![p] = "idle"]
  /\ UNCHANGED <<now, ticks, notCodeVars, verifyRateLimitStore, variant,
                 verificationStore, vops, outbox>>

(* The record changed since it was read: the transaction function runs     *)
(* again.                                                                  *)
VerifyRetry(p) ==
  /\ variant = "server" /\ vpc[p] = "commit"
  /\ ~SnapshotCurrent(vreq[p].snapshot, Get(verificationCodes, vreq[p].email))
  /\ vpc' = [vpc EXCEPT ![p] = "txn"]
  /\ UNCHANGED <<now, ticks, notCodeVars, verifyRateLimitStore, variant,
                 verificationCodes, verificationStore, vreq, vresp, vops,
                 outbox, issued>>

(* Lines 206-209: the transaction throws and verifyCode returns false. *)
VerifyFail(p) ==
  /\ variant = "server" /\ vpc[p] = "commit"
  /\ vresp' = VAnswer(p, vreq[p], 200, FALSE, "unavailable")
  /\ vpc' = [vpc EXCEPT ![p] = "idle"]
  /\ vreq' = [vreq EXCEPT ![p] = NoVRequest]
  /\ UNCHANGED <<now, ticks, notCodeVars, verifyRateLimitStore, variant,
                 verificationCodes, verificationStore, vops, outbox,
                 issued>>

(* POST ?action=send, in-memory variant, up to the call of the mail        *)
(* service: lines 230-241 and 98-116.                                      *)
MemorySend(p, email, ip) ==
  /\ variant = "memory" /\ Free(p) /\ vops < MaxOps
  /\ vops' = vops + 1
  /\ LET q == VRequest("send", email, "", ip)
         rl == SendRateLimit(verifyRateLimitStore, email, ip, now)
     IN IF ~ValidEmail(email)
          THEN /\ vresp' = VAnswer(p, q, 400, FALSE, "invalid")
               /\ UNCHANGED <<verifyRateLimitStore, vpc, vreq,
                              verificationStore, issued>>
        ELSE /\ verifyRateLimitStore' = rl.store
             /\ IF rl.limited
                  THEN /\ vresp' = VAnswer(p, q, 500, FALSE, "rate-limited")
                       /\ UNCHANGED <<vpc, vreq, verificationStore, issued>>
                  ELSE /\ \E code \in GeneratedCodes :
                            /\ vreq' = [vreq EXCEPT ![p] =
                                         [q EXCEPT !.generated = code,
                                                   !.expiresAt = now + verifyTTL]]
                            /\ verificationStore' =
                                 Put(verificationStore, email,
                                     MemoryRecord(code, now + verifyTTL))
                            /\ issued' = Put(issued, email,
                                             Issue(code, now, p))
                       /\ vpc' = [vpc EXCEPT ![p] = "mail"]
                       /\ UNCHANGED vresp
  /\ UNCHANGED <<now, ticks, notCodeVars, variant, verificationCodes, outbox>>

(* POST ?action=reset-password, up to the call of the mail service: lines  *)
(* 270-281 and 144-154.                                                    *)
MemoryReset(p, email) ==
  /\ variant = "memory" /\ Free(p) /\ vops < MaxOps
  /\ vops' = vops + 1
  /\ LET q == VRequest("reset", email, "", 1)
     IN IF ~ValidEmail(email)
          THEN /\ vresp' = VAnswer(p, q, 400, FALSE, "invalid")
               /\ UNCHANGED <<vpc, vreq, verificationStore, issued>>
        ELSE /\ \E resetCode \in GeneratedCodes :
                  /\ vreq' = [vreq EXCEPT ![p] =
                               [q EXCEPT !.generated = resetCode,
                                         !.expiresAt = now + resetTTL]]
                  /\ verificationStore' =
                       Put(verificationStore, ResetKey(email),
                           MemoryRecord(resetCode, now + resetTTL))
                  /\ issued' = Put(issued, ResetKey(email),
                                   Issue(resetCode, now, p))
             /\ vpc' = [vpc EXCEPT ![p] = "mail"]
             /\ UNCHANGED vresp
  /\ UNCHANGED <<now, ticks, notCodeVars, verifyRateLimitStore, variant,
                 verificationCodes, outbox>>

(* POST ?action=verify, in-memory variant: lines 253-267 and 181-218. *)
MemoryVerify(p, email, code) ==
  /\ variant = "memory" /\ Free(p) /\ vops < MaxOps
  /\ vops' = vops + 1
  /\ LET q == VRequest("verify", email, code, 1)
         d == MemoryVerifyDecision(Get(verificationStore, email), code, now)
     IN IF ~ValidEmail(email) \/ ~ValidCode(code)
          THEN /\ vresp' = VAnswer(p, q, 400, FALSE, "invalid")
               /\ UNCHANGED <<verificationStore, issued>>
        ELSE /\ verificationStore' = Written(verificationStore, email, d)
             /\ issued' = Consumed(issued, email, d)
             /\ vresp' = VAnswer(p, q, 200, d.result, d.why)
  /\ UNCHANGED <<now, ticks, notCodeVars, verifyRateLimitStore, variant,
                 verificationCodes, vpc, vreq, outbox>>

WarmEmail == "a@x.com"
WarmCode == "100000"
WrongCode == "999999"

(* What callers send: a@x.com from either address, b@x.com from the      *)
(* first, and a string that is no email address.                           *)
EmailInputs == Emails \cup {NotAnEmail}
SendInputs ==
  {[email |-> e, ip |-> a] : e \in EmailInputs, a \in ClientIPs}
    \ {i \in [email : EmailInputs, ip : ClientIPs] :
         i.email # WarmEmail /\ i.ip # 1}
CodeInputs == CandidateCodes \cup {ShortCode}

(* What callers of verifyCode of the in-memory variant send as email: the  *)
(* above, and the key of a reset record, which is no email address.        *)
VerifyEmailInputs == EmailInputs \cup {ResetKey(WarmEmail)}

Server ==
  \E p \in Procs :
    \/ \E i \in SendInputs : SendStart(p, i.email, i.ip)
    \/ SendCommit(p)
    \/ SendCommitFail(p)
    \/ \E email \in EmailInputs, code \in CodeInputs :
         VerifyStart(p, email, code)
    \/ VerifyGet(p)
    \/ VerifyCommit(p)
    \/ VerifyRetry(p)
    \/ VerifyFail(p)

Memory ==
  \E p \in Procs :
    \/ \E i \in SendInputs : MemorySend(p, i.email, i.ip)
    \/ \E email \in EmailInputs : MemoryReset(p, email)
    \/ \E email \in VerifyEmailInputs, code \in CodeInputs :
         MemoryVerify(p, email, code)

Mail == \E p \in Procs, outcome \in MailOutcomes : Dispatch(p, outcome)

NextCodes == CodeTick \/ Server \/ Memory \/ Mail

(* The state after a code for a@x.com was issued and mailed at time 0 and  *)
(* n wrong codes were tried on it.                                         *)

RECURSIVE WarmCodes(_, _)
WarmCodes(v, n) ==
  IF n = 0
    THEN IF v = "server"
           THEN Put(<< >>, WarmEmail,
                    ServerRecord(WarmCode, WarmEmail, verifyTTL, 0, 1))
           ELSE Put(<< >>, WarmEmail, MemoryRecord(WarmCode, verifyTTL))
  ELSE LET store == WarmCodes(v, n - 1)
           d == IF v = "server"
                  THEN VerifyDecision(Get(store, WarmEmail), WarmEmail,
                                      WrongCode, 0)
                  ELSE MemoryVerifyDecision(Get(store, WarmEmail),
                                            WrongCode, 0)
       IN Written(store, WarmEmail, d)

RECURSIVE WarmIssued(_, _)
WarmIssued(v, n) ==
  IF n = 0
    THEN Put(<< >>, WarmEmail,
             [Issue(WarmCode, 0, 1) EXCEPT !.delivered = "ok"])
  ELSE LET store == WarmCodes(v, n - 1)
           d == IF v = "server"
                  THEN VerifyDecision(Get(store, WarmEmail), WarmEmail,
                                      WrongCode, 0)
                  ELSE MemoryVerifyDecision(Get(store, WarmEmail),
                                            WrongCode, 0)
       IN Consumed(WarmIssued(v, n - 1), WarmEmail, d)

RECURSIVE WarmRateLimitStore(_)
WarmRateLimitStore(k) ==
  IF k = 0 THEN << >>
  ELSE SendRateLimit(WarmRateLimitStore(k - 1), WarmEmail, 1, 0).store

(* A run starts with nothing stored, or after `sends` codes for a@x.com    *)
(* were issued and mailed at time 0 and `wrong` wrong codes were tried on  *)
(* the last of them.                                                       *)
CodeInits ==
  {[sends |-> 0, wrong |-> 0],
   [sends |-> 1, wrong |-> maxAttempts - 1],
   [sends |-> verifyMaxRequests, wrong |-> 0]}

InitCodes ==
  \E v \in Variants, w \in CodeInits :
    /\ now = 0
    /\ deviceRateLimitStore = << >>
    /\ userDoc = AbsentDoc
    /\ devicesCol = << >>
    /\ pc = [p \in Procs |-> "idle"]
    /\ req = [p \in Procs |-> NoRequest]
    /\ nextId = 1
    /\ jar = [p \in Procs |-> NoCookie]
    /\ resp = NoResponse
    /\ sent = 0
    /\ ticks = 0
    /\ usedFP = 0
    /\ lastStarted = 1
    /\ concurrent = 1
    /\ verifyRateLimitStore = WarmRateLimitStore(w.sends)
    /\ relayRateLimitStore = << >>
    /\ rlWindow = << >>
    /\ rlLast = NoCall
    /\ variant = v
    /\ verificationCodes =
         IF w.sends > 0 /\ v = "server" THEN WarmCodes(v, w.wrong) ELSE << >>
    /\ verificationStore =
         IF w.sends > 0 /\ v = "memory" THEN WarmCodes(v, w.wrong) ELSE << >>
    /\ vpc = [p \in Procs |-> "idle"]
    /\ vreq = [p \in Procs |-> NoVRequest]
    /\ vresp = NoVResponse
    /\ vops = 0
    /\ outbox = w.sends
    /\ issued = IF w.sends > 0 THEN WarmIssued(v, w.wrong) ELSE << >>
    /\ NoRelay
    /\ NoPages

SpecCodes == InitCodes /\ [][NextCodes]_vars

(* ------------------------------ email relay ---------------------------- *)
(* What the signer signs: a recipient and a subject, with or without an    *)
(* attachment, the attachment with or without its encoding.                *)
Attachment(withEncoding) ==
  << <<"filename", "f.txt">>, <<"content", "Zg==">> >>
    \o (IF withEncoding THEN << <<"encoding", DefaultEncoding>> >>
        ELSE << >>)

SignerContents ==
  LET head == << <<"to", "a@x.com">>, <<"subject", "hello">> >>
  IN {head,
      head \o << <<"attachments", <<Attachment(TRUE)>> >> >>,
      head \o << <<"attachments", <<Attachment(FALSE)>> >> >>}

(* The signer lists the fields in the order of the schema with the         *)
(* timestamp last, or the timestamp first.                                 *)
SignerOrders == {"schema", "timestamp-first"}

(* The timestamp of the signer, against the clock of the relay. *)
TimestampOffsets ==
  {0 - relayFreshness - 1, 0, relayFreshness, relayFreshness + 1}

SignerMessage(content, order, timestamp) ==
  IF order = "schema" THEN content \o << <<"timestamp", timestamp>> >>
  ELSE << <<"timestamp", timestamp>> >> \o content

SignerMessages(t) ==
  {SignerMessage(c, o, t + d) :
     c \in SignerContents, o \in SignerOrders, d \in TimestampOffsets}

(* The body of the request of a signer: JSON.stringify({...message, hmac}) *)
(* as request.json() reads it.                                             *)
SignedRequest(message) ==
  message \o << <<"hmac", createEmailHMAC(message)>> >>

(* What happens to a request on its way: nothing, or a field, the          *)
(* timestamp or the signature is changed (a digit cut off, another secret, *)
(* the last two digits replaced by characters that are no hex digits, the  *)
(* empty string), the signature is removed, or the encoding of the         *)
(* attachments is.                                                         *)
Tampers ==
  {"none", "subject", "to", "to-invalid", "timestamp", "truncated-hmac",
   "forged-hmac", "non-hex-hmac", "empty-hmac", "no-hmac", "drop-encoding"}

Tampered(body, how) ==
  IF how = "subject" THEN SetField(body, "subject", "HELLO")
  ELSE IF how = "to" THEN SetField(body, "to", "b@x.com")
  ELSE IF how = "to-invalid" THEN SetField(body, "to", NotAnEmail)
  ELSE IF how = "timestamp"
    THEN SetField(body, "timestamp", Field(body, "timestamp") + 1)
  ELSE IF how = "truncated-hmac"
    THEN SetField(body, "hmac",
                  [Field(body, "hmac") EXCEPT !.length = hmacHexLength - 1,
                                              !.hex = hmacHexLength - 1])
  ELSE IF how = "non-hex-hmac"
    THEN SetField(body, "hmac",
                  [Field(body, "hmac") EXCEPT !.hex = hmacHexLength - 2])
  ELSE IF how = "empty-hmac"
    THEN SetField(body, "hmac",
                  [Field(body, "hmac") EXCEPT !.length = 0, !.hex = 0])
  ELSE IF how = "forged-hmac"
    THEN SetField(body, "hmac",
                  HmacSha256("guess", Field(body, "hmac").payload))
  ELSE IF how = "no-hmac" THEN Omit(body, {"hmac"})
  ELSE IF how = "drop-encoding" /\ "attachments" \in Keys(body)
    THEN SetField(body, "attachments",
                  [i \in 1..Len(Field(body, "attachments")) |->
                     Omit(Field(body, "attachments")[i], {"encoding"})])
  ELSE body

RelayTick ==
  /\ relay # "none" /\ ticks < MaxRelayTicks
  /\ ticks' = ticks + 1
  /\ now' = now + relayWindowMs + 1
  /\ UNCHANGED <<deviceRateLimitStore, registryVars, limiterVars, codeVars,
                 pageVars,
                 relayVars>>

(* POST of src/unnamed/part_001, lines 108-165. *)
RelayPost(ip, message, body) ==
  /\ relay = "signed" /\ rops < MaxRelayOps
  /\ rops' = rops + 1
  /\ LET rl == isRateLimitedRelay(relayRateLimitStore, ip, now)
         parseResult == zSafeParse(body, SignedKeys)
         hmac == Field(parseResult.data, "hmac")
         timestamp == Field(parseResult.data, "timestamp")
         emailData == Omit(parseResult.data, {"hmac", "timestamp"})
         verified == verifyHMAC(emailData \o << <<"timestamp", timestamp>> >>,
                                hmac)
     IN /\ relayRateLimitStore' = rl.store
        /\ IF rl.limited
             THEN /\ rresp' = RAnswer(ip, message, body, 429, FALSE,
                                      "Rate limit exceeded")
                  /\ UNCHANGED relaySends
           ELSE IF ~parseResult.success
             THEN /\ rresp' = RAnswer(ip, message, body, 400, FALSE,
                                      "Invalid email data")
                  /\ UNCHANGED relaySends
           ELSE IF Expired(now, timestamp)
             THEN /\ rresp' = RAnswer(ip, message, body, 401, FALSE,
                                      "Request timestamp expired")
                  /\ UNCHANGED relaySends
           ELSE IF verified.raised
             THEN /\ rresp' = RAnswer(ip, message, body, 500, FALSE,
                                      "Internal server error")
                  /\ UNCHANGED relaySends
           ELSE IF ~verified.result
             THEN /\ rresp' = RAnswer(ip, message, body, 401, FALSE,
                                      "Invalid authentication")
                  /\ UNCHANGED relaySends
           ELSE /\ relaySends' = relaySends + 1
                /\ \E outcome \in MailOutcomes :
                     rresp' = [RAnswer(ip, message, body, 200,
                                       outcome = "ok", "")
                                 EXCEPT !.reached = TRUE,
                                        !.sent = emailData]
  /\ UNCHANGED <<now, ticks, deviceRateLimitStore, registryVars,
                 verifyRateLimitStore, rlWindow, rlLast, codeVars, pageVars,
                 relay>>

(* POST of src/src/app/api/send-email/route.ts, lines 56-84. *)
OpenPost(ip, message, body) ==
  /\ relay = "open" /\ rops < MaxRelayOps
  /\ rops' = rops + 1
  /\ LET parseResult == zSafeParse(body, SmtpKeys)
     IN IF ~parseResult.success
          THEN /\ rresp' = RAnswer(ip, message, body, 400, FALSE,
                                   "Invalid email data")
               /\ UNCHANGED relaySends
        ELSE /\ relaySends' = relaySends + 1
             /\ \E outcome \in MailOutcomes :
                  rresp' = [RAnswer(ip, message, body, 200,
                                    outcome = "ok", "")
                              EXCEPT !.reached = TRUE,
                                     !.sent = parseResult.data]
  /\ UNCHANGED <<now, ticks, deviceRateLimitStore, registryVars, limiterVars,
                 codeVars, pageVars, relay>>

(* The requests that arrive at time t: those of the signers as they were  *)
(* sent, and the ones with a fresh timestamp and the fields in the order   *)
(* of the schema changed on their way.                                     *)
RelayRequests(t) ==
  {[message |-> m, body |-> SignedRequest(m)] : m \in SignerMessages(t)}
    \cup {[message |-> SignerMessage(c, "schema", t),
           body |-> Tampered(SignedRequest(SignerMessage(c, "schema", t)),
                             how)] :
            c \in SignerContents, how \in Tampers}

NextRelay ==
  \/ RelayTick
  \/ \E ip \in RelayClientIPs, q \in RelayRequests(now) :
       RelayPost(ip, q.message, q.body)
  \/ \E ip \in RelayClientIPs, q \in RelayRequests(now) :
       OpenPost(ip, q.message, q.body)

(* The store after k requests from the first address at time 0. *)
RECURSIVE WarmRelayStore(_)
WarmRelayStore(k) ==
  IF k = 0 THEN << >>
  ELSE isRateLimitedRelay(WarmRelayStore(k - 1), "10.0.0.1", 0).store

(* A run starts with no request served, or, in the signed relay, after    *)
(* the first address has one request left in its window.                   *)
RelayInits ==
  {[relay |-> r, served |-> 0] : r \in RelayVariants}
    \cup {[relay |-> "signed", served |-> relayMaxRequests - 1]}

InitRelay ==
  \E w \in RelayInits :
    /\ now = 0
    /\ deviceRateLimitStore = << >>
    /\ userDoc = AbsentDoc
    /\ devicesCol = << >>
    /\ pc = [p \in Procs |-> "idle"]
    /\ req = [p \in Procs |-> NoRequest]
    /\ nextId = 1
    /\ jar = [p \in Procs |-> NoCookie]
    /\ resp = NoResponse
    /\ sent = 0
    /\ ticks = 0
    /\ usedFP = 0
    /\ lastStarted = 1
    /\ concurrent = 1
    /\ verifyRateLimitStore = << >>
    /\ relayRateLimitStore = WarmRelayStore(w.served)
    /\ rlWindow = << >>
    /\ rlLast = NoCall
    /\ NoCodes
    /\ relay = w.relay
    /\ rresp = NoRResponse
    /\ relaySends = 0
    /\ rops = 0
    /\ NoPages

SpecRelay == InitRelay /\ [][NextRelay]_vars

(* ------------------------------ signup page ---------------------------- *)
(* src/src/app/(auth)/signup/page.tsx, onSubmit.  utils/replitmail.ts has  *)
(* two sendEmail: one posts to the mail service itself and throws when the *)
(* mail is refused, the other posts to /api/send-email and returns false.  *)
MaxSubmits == 2            \* times the form is submitted in a run

notPageVars == <<now, ticks, deviceRateLimitStore, registryVars, limiterVars,
                 codeVars, relayVars>>

Mailers == {"direct", "route"}

(* window.location.hostname, as its labels. *)
Hostnames == {<<"localhost">>, <<"app", "replit", "dev">>}

(* Line 166: hostname.includes('replit.dev'). *)
canSendEmails(hostname) ==
  \E i \in 1..(Len(hostname) - 1) :
    hostname[i] = "replit" /\ hostname[i + 1] = "dev"

(* sendEmail(message), for what the mail service does with the mail:       *)
(* whether it throws, and the value it resolves to otherwise.              *)
sendEmail(mailer, outcome) ==
  IF mailer = "direct"
    THEN [throws |-> outcome # "ok", value |-> TRUE]
    ELSE [throws |-> FALSE, value |-> outcome = "ok"]

(* Lines 66-94: sendVerificationEmail of the page awaits sendEmail, drops  *)
(* its value and throws what it throws.                                    *)
sendVerificationEmail(mailer, outcome) ==
  [throws |-> sendEmail(mailer, outcome).throws]

(* The uid Firebase gives the account of an email address. *)
uid(email) == "uid:" \o email

(* Lines 186-209 and 250-266: the document written to users/{uid}. *)
userDocument(email, emailVerified) ==
  [email |-> email, status |-> "online", background |-> "galaxy",
   emailVerified |-> emailVerified]

ClosedForm(mailer, hostname) ==
  [pc |-> "idle", mailer |-> mailer, hostname |-> hostname, email |-> "",
   uid |-> NoUser, code |-> "", toast |-> "", route |-> "/signup",
   mail |-> "", submits |-> 0]

(* Line 163: the form is submitted with an email address the schema takes. *)
SignupSubmit(email) ==
  /\ signup.pc = "idle" /\ signup.submits < MaxSubmits
  /\ signup' = [signup EXCEPT !.pc = "create", !.email = email,
                              !.uid = NoUser, !.code = "", !.toast = "",
                              !.route = "/signup", !.mail = "",
                              !.submits = @ + 1]
  /\ UNCHANGED <<notPageVars, firebase, guard>>

(* Lines 170-175 and 230-235: createUserWithEmailAndPassword of            *)
(* react-firebase-hooks resolves to undefined when the address is in use,  *)
(* and signs the new user in otherwise.                                    *)
SignupCreateUser ==
  /\ signup.pc = "create"
  /\ IF signup.email \in DOMAIN firebase.accounts
       THEN /\ signup' = [signup EXCEPT !.pc = "idle"]
            /\ UNCHANGED firebase
     ELSE /\ firebase' = [firebase EXCEPT
                            !.accounts = Put(@, signup.email,
                                             uid(signup.email)),
                            !.currentUser = uid(signup.email)]
          /\ signup' = [signup EXCEPT !.pc = "userdoc",
                                      !.uid = uid(signup.email)]
  /\ UNCHANGED <<notPageVars, guard>>

(* Lines 313-326: the catch of onSubmit. *)
SignupError == [signup EXCEPT !.pc = "idle", !.toast = "error"]

(* Lines 176-209 and 236-266: setDoc of the user document, with            *)
(* emailVerified true in the development flow and false in production.     *)
SignupUserDoc(written) ==
  /\ signup.pc = "userdoc"
  /\ IF written
       THEN /\ firebase' =
                 LET emailVerified == ~canSendEmails(signup.hostname)
                 IN [firebase EXCEPT
                       !.users = Put(@, signup.uid,
                                     userDocument(signup.email,
                                                  emailVerified))]
            /\ signup' = [signup EXCEPT !.pc = "devicedoc"]
     ELSE /\ signup' = SignupError
          /\ UNCHANGED firebase
  /\ UNCHANGED <<notPageVars, guard>>

(* Lines 211-227 and 268-281: setDoc of the device document; then the      *)
(* development flow is done, and the production flow generates a code.     *)
SignupDeviceDoc(written) ==
  /\ signup.pc = "devicedoc"
  /\ IF ~written
       THEN /\ signup' = SignupError
            /\ UNCHANGED firebase
     ELSE /\ firebase' = [firebase EXCEPT !.devices = @ \cup {signup.uid}]
          /\ IF ~canSendEmails(signup.hostname)
               THEN signup' = [signup EXCEPT !.pc = "idle",
                                             !.toast = "created-development",
                                             !.route = "/"]
             ELSE \E verificationCode \in GeneratedCodes :
                    signup' = [signup EXCEPT !.pc = "mail",
                                             !.code = verificationCode]
  /\ UNCHANGED <<notPageVars, guard>>

(* Lines 283-296: the mail is sent; when nothing is thrown the user is     *)
(* signed out and sent to the verification page.                           *)
SignupMail(outcome) ==
  /\ signup.pc = "mail"
  /\ IF sendVerificationEmail(signup.mailer, outcome).throws
       THEN /\ signup' = [signup EXCEPT !.pc = "catch", !.mail = outcome]
            /\ UNCHANGED firebase
     ELSE /\ firebase' = [firebase EXCEPT !.currentUser = NoUser]
          /\ signup' = [signup EXCEPT !.pc = "idle", !.mail = outcome,
                                      !.toast = "check-your-email",
                                      !.route = "/verify-email"]
  /\ UNCHANGED <<notPageVars, guard>>

(* Lines 296-310: catch (emailError). *)
SignupMailCatch(written) ==
  /\ signup.pc = "catch"
  /\ IF written
       THEN /\ firebase' = [firebase EXCEPT
                              !.users[signup.uid].emailVerified = TRUE]
            /\ signup' = [signup EXCEPT !.pc = "idle",
                                        !.toast = "email-unavailable",
                                        !.route = "/"]
     ELSE /\ signup' = SignupError
          /\ UNCHANGED firebase
  /\ UNCHANGED <<notPageVars, guard>>

NextSignup ==
  \/ \E email \in Emails : SignupSubmit(email)
  \/ SignupCreateUser
  \/ \E written \in BOOLEAN : SignupUserDoc(written)
  \/ \E written \in BOOLEAN : SignupDeviceDoc(written)
  \/ \E outcome \in MailOutcomes : SignupMail(outcome)
  \/ \E written \in BOOLEAN : SignupMailCatch(written)

(* No request was served by any route. *)
NoServer ==
  /\ now = 0
  /\ deviceRateLimitStore = << >>
  /\ userDoc = AbsentDoc
  /\ devicesCol = << >>
  /\ pc = [p \in Procs |-> "idle"]
  /\ req = [p \in Procs |-> NoRequest]
  /\ nextId = 1
  /\ jar = [p \in Procs |-> NoCookie]
  /\ resp = NoResponse
  /\ sent = 0
  /\ ticks = 0
  /\ usedFP = 0
  /\ lastStarted = 1
  /\ concurrent = 1
  /\ verifyRateLimitStore = << >>
  /\ relayRateLimitStore = << >>
  /\ rlWindow = << >>
  /\ rlLast = NoCall
  /\ NoCodes
  /\ NoRelay

InitSignup ==
  /\ NoServer
  /\ firebase = NoFirebase
  /\ \E mailer \in Mailers, hostname \in Hostnames :
       signup = ClosedForm(mailer, hostname)
  /\ guard = NoGuard

SpecSignup == InitSignup /\ [][NextSignup]_vars

(* ------------------------------ AuthProvider --------------------------- *)
(* src/src/components/providers/auth-provider.tsx, the component with the  *)
(* profile state (lines 129-257).  A change of state renders the component *)
(* again, and the effects whose dependencies changed run after the render, *)
(* before anything else happens.                                           *)
MaxGuardOps == 2           \* navigations, sign-ins and sign-outs of a run

AUTH_ROUTES == {"/login", "/signup", "/verify-email"}
Paths == AUTH_ROUTES \cup {"/"}

(* The accounts of a run: two password accounts, the first with an         *)
(* unverified user document, and a Google account.  user.emailVerified of  *)
(* Firebase is true for the Google account only.                           *)
GuardEmails == Emails \cup {"g@gmail.com"}
GoogleUser == uid("g@gmail.com")
GuardUsers == {uid(e) : e \in GuardEmails}
providerVerified(user) == user = GoogleUser
GuardDocs ==
  [u \in GuardUsers |->
     userDocument(CHOOSE e \in GuardEmails : uid(e) = u,
                  u # uid("a@x.com"))]

NoProfile == [email |-> "", status |-> "", background |-> "",
              emailVerified |-> FALSE]
NoRouterCall == [how |-> "", to |-> ""]

isAuthRoute(pathname) == pathname \in AUTH_ROUTES
isLoading(g) == g.loading \/ g.profileLoading

(* Lines 244-256, with the children shown to a signed-in user on an auth   *)
(* route.                                                                  *)
Screen_AuthRouteOpen(g) ==
  IF isLoading(g) \/ (g.user = NoUser /\ ~isAuthRoute(g.pathname))
    THEN "loading"
  ELSE "children"

(* Lines 244-256: what the component renders. *)
Screen(g) ==
  IF \/ isLoading(g)
     \/ (g.user = NoUser /\ ~isAuthRoute(g.pathname))
     \/ (g.user # NoUser /\ isAuthRoute(g.pathname))
    THEN "loading"
  ELSE "children"

(* The dependencies of the effects of lines 159-166 and 209-237 that       *)
(* differ between two renders.                                             *)
Due(before, after) ==
  (IF before.user # after.user THEN {"profile"} ELSE {})
    \cup (IF <<before.user, before.loading, before.profileLoading,
               before.pathname>>
              # <<after.user, after.loading, after.profileLoading,
                  after.pathname>>
            THEN {"route"} ELSE {})

(* The component rendered for a new state. *)
Rendered(before, after) ==
  [after EXCEPT !.screen = Screen(after), !.due = Due(before, after)]

(* Lines 159-166 and 168-189: the effect of [user], up to the getDoc of    *)
(* fetchUserProfile.                                                       *)
ProfileEffect(closure, g) ==
  IF "profile" \notin closure.due THEN g
  ELSE IF closure.user # NoUser
    THEN [g EXCEPT !.profileLoading = TRUE,
                   !.fetching = @ \cup {closure.user}]
  ELSE [g EXCEPT !.userProfile = NoProfile, !.profileLoading = FALSE]

(* Lines 209-237: the effect of [user, loading, profileLoading, pathname], *)
(* up to the getDoc of the verification check.                             *)
RouteEffect(closure, g) ==
  IF "route" \notin closure.due \/ isLoading(closure) THEN g
  ELSE IF closure.user # NoUser /\ isAuthRoute(closure.pathname)
    THEN [g EXCEPT !.router = [how |-> "replace", to |-> "/"],
                   !.nav = "/"]
  ELSE IF closure.user = NoUser /\ ~isAuthRoute(closure.pathname)
    THEN [g EXCEPT !.router = [how |-> "replace", to |-> "/login"],
                   !.nav = "/login"]
  ELSE IF closure.user # NoUser /\ ~providerVerified(closure.user)
    THEN [g EXCEPT !.checking = closure.user]
  ELSE g

Mounted(pathname) ==
  [user |-> NoUser, loading |-> TRUE, profileLoading |-> TRUE,
   userProfile |-> NoProfile, pathname |-> pathname, screen |-> "loading",
   due |-> {"profile", "route"}, fetching |-> {}, checking |-> NoUser,
   router |-> NoRouterCall, nav |-> "", ops |-> 0]

(* The effects of the last render run. *)
GuardEffects ==
  /\ guard.due # {}
  /\ guard' = Rendered(guard,
                       RouteEffect(guard, ProfileEffect(guard, guard)))
  /\ UNCHANGED <<notPageVars, firebase, signup>>

(* Lines 139-157: the listener of onAuthStateChanged is called with the    *)
(* user Firebase has signed in, or null.                                   *)
AuthStateChanged ==
  /\ guard.due = {}
  /\ guard.loading \/ guard.user # firebase.currentUser
  /\ guard' = Rendered(guard, [guard EXCEPT !.user = firebase.currentUser,
                                            !.loading = FALSE])
  /\ UNCHANGED <<notPageVars, firebase, signup>>

(* Lines 171-188: the getDoc of fetchUserProfile for user u returns, or    *)
(* throws.                                                                 *)
FetchProfileDone(u, ok) ==
  /\ guard.due = {} /\ u \in guard.fetching
  /\ guard' =
       Rendered(guard,
                [guard EXCEPT
                   !.fetching = @ \ {u},
                   !.userProfile = IF ok /\ u \in DOMAIN firebase.users
                                     THEN firebase.users[u] ELSE NoProfile,
                   !.profileLoading = FALSE])
  /\ UNCHANGED <<notPageVars, firebase, signup>>

(* Lines 221-230: the getDoc of the verification check returns; a user     *)
(* whose document is not verified is signed out and sent to the login      *)
(* page.                                                                   *)
VerifyCheck ==
  /\ guard.due = {} /\ guard.checking # NoUser
  /\ LET u == guard.checking
         unverified == /\ u \in DOMAIN firebase.users
                       /\ firebase.users[u].emailVerified # TRUE
     IN IF unverified
          THEN /\ firebase' = [firebase EXCEPT !.currentUser = NoUser]
               /\ guard' = [guard EXCEPT
                              !.checking = NoUser,
                              !.router = [how |-> "push", to |-> "/login"],
                              !.nav = "/login"]
        ELSE /\ guard' = [guard EXCEPT !.checking = NoUser]
             /\ UNCHANGED firebase
  /\ UNCHANGED <<notPageVars, signup>>

(* The navigation the router was asked for takes place. *)
Navigate ==
  /\ guard.due = {} /\ guard.nav # ""
  /\ guard' = Rendered(guard, [guard EXCEPT !.pathname = guard.nav,
                                            !.nav = ""])
  /\ UNCHANGED <<notPageVars, firebase, signup>>

(* The visitor opens another path. *)
Visit(pathname) ==
  /\ guard.due = {} /\ guard.nav = "" /\ guard.ops < MaxGuardOps
  /\ pathname # guard.pathname
  /\ guard' = Rendered(guard, [guard EXCEPT !.pathname = pathname,
                                            !.ops = @ + 1])
  /\ UNCHANGED <<notPageVars, firebase, signup>>

(* A page signs a user in, or the user out. *)
SignIn(u) ==
  /\ guard.due = {} /\ guard.ops < MaxGuardOps
  /\ firebase.currentUser = NoUser
  /\ firebase' = [firebase EXCEPT !.currentUser = u]
  /\ guard' = [guard EXCEPT !.ops = @ + 1]
  /\ UNCHANGED <<notPageVars, signup>>

SignOut ==
  /\ guard.due = {} /\ guard.ops < MaxGuardOps
  /\ firebase.currentUser # NoUser
  /\ firebase' = [firebase EXCEPT !.currentUser = NoUser]
  /\ guard' = [guard EXCEPT !.ops = @ + 1]
  /\ UNCHANGED <<notPageVars, signup>>

NextGuard ==
  \/ GuardEffects
  \/ AuthStateChanged
  \/ \E u \in GuardUsers, ok \in BOOLEAN : FetchProfileDone(u, ok)
  \/ VerifyCheck
  \/ Navigate
  \/ \E pathname \in Paths : Visit(pathname)
  \/ \E u \in GuardUsers : SignIn(u)
  \/ SignOut

(* The component is mounted on a path, with or without a user signed in    *)
(* from an earlier visit.                                                  *)
InitGuard ==
  /\ NoServer
  /\ signup = NoSignup
  /\ \E u \in GuardUsers \cup {NoUser} :
       firebase = [currentUser |-> u,
                   accounts |-> [e \in GuardEmails |-> uid(e)],
                   users |-> GuardDocs, devices |-> {}]
  /\ \E pathname \in Paths : guard = Mounted(pathname)

SpecGuard == InitGuard /\ [][NextGuard]_vars

(* ======================= properties of the registry ==================== *)
CountFingerprint(devs, f) ==
  Cardinality({i \in 1..Len(devs) : SameFingerprint(devs[i], f)})

(* The step in which the handler of client p answers a request that went   *)
(* through the transaction.                                                *)
Answers(p) == pc[p] = "commit" /\ pc'[p] = "idle"

(* Both handlers have answered, each registered a new device, from         *)
(* different fingerprints, and the two requests overlapped each other and   *)
(* no third request.                                                       *)
C1_Pair ==
  /\ pc[1] = "idle" /\ pc[2] = "idle"
  /\ concurrent = 2
  /\ \A p \in Procs : /\ req[p].isNewDevice
                      /\ req[p].deviceId \in DOMAIN devicesCol
  /\ req[1].fp # req[2].fp

(* The list before either of the two started. *)
C1_Before == req[Other(lastStarted)].startDoc.devices

(* C1 as stated: after two concurrent registrations from fingerprints      *)
(* f1 # f2 the list has exactly one entry for f1, one for f2, and every    *)
(* entry that was in it before either call started.                        *)
C1_NothingLost ==
  C1_Pair =>
    /\ \A p \in Procs : CountFingerprint(userDoc.devices, req[p].fp) = 1
    /\ Ids(C1_Before) \subseteq Ids(userDoc.devices)

(* C1 amended: after two concurrent registrations from fingerprints        *)
(* f1 # f2 the list has exactly one entry for f1 and one for f2, and of    *)
(* the entries it had before either call started it has lost only those    *)
(* with fingerprint f1 or f2 and the oldest ones beyond maxDevices - 2:    *)
(* it is the most recent other entries, unchanged and in their order,      *)
(* followed by the two new entries in the order of their commits.          *)
C1_NoLostUpdate ==
  C1_Pair =>
    LET Others(d) == \A p \in Procs : ~SameFingerprint(d, req[p].fp)
        kept == Slice(SelectSeq(C1_Before, Others), 2 - maxDevices)
        new(p) == devicesCol[req[p].deviceId]
    IN /\ \A p \in Procs : CountFingerprint(userDoc.devices, req[p].fp) = 1
       /\ \/ userDoc.devices = kept \o <<new(1), new(2)>>
          \/ userDoc.devices = kept \o <<new(2), new(1)>>

(* Two overlapping registrations that found a list with entries in it. *)
C1_Witness == C1_Pair /\ Len(C1_Before) > 0

(* C2: the device list never has more than maxDevices entries, whatever    *)
(* registrations the endpoint has served.                                  *)
C2_Capped == Len(userDoc.devices) <= maxDevices

(* A full list that holds an entry registered after the list was full. *)
C2_Witness ==
  /\ Len(userDoc.devices) = maxDevices
  /\ \E i \in 1..Len(userDoc.devices) : userDoc.devices[i].id > maxDevices

C4_UniqueIds == Cardinality(Ids(userDoc.devices)) = Len(userDoc.devices)

(* A list with an entry of the endpoint followed by one of the login page. *)
C4_Witness ==
  /\ Len(userDoc.devices) >= 2
  /\ userDoc.devices[Len(userDoc.devices)].id \in LoginIds
  /\ userDoc.devices[1].id \notin LoginIds

(* C5: when the endpoint answers with device id D, the device list has an  *)
(* entry with id D.                                                        *)
C5_ReturnedIdListed ==
  [][\A p \in Procs :
       (Answers(p) /\ resp'.status = 200)
         => resp'.deviceId \in Ids(userDoc'.devices)]_vars

(* C6: a registration that finds no user document does not fail for a      *)
(* reason of its own, and creates the document with the default profile    *)
(* and the registering device as its only entry, with or without cookie.   *)
C6_AbsentDocCreated ==
  [][\A p \in Procs :
       (Answers(p) /\ ~req[p].snapshot.exists /\ ~userDoc.exists)
         => /\ resp'.logged # "not-found"
            /\ resp'.status = 200 =>
                 /\ userDoc'.exists
                 /\ userDoc'.status = "online"
                 /\ userDoc'.background = "galaxy"
                 /\ Ids(userDoc'.devices) = {req[p].deviceId}
                 /\ Len(userDoc'.devices) = 1]_vars

(* C7: when a client's registration without cookie from fingerprint F was  *)
(* answered with id D and its next request carries cookie D, the first     *)
(* answer has isNewDevice = true, the second is a success with             *)
(* isNewDevice = false and the same D, and the list has one entry for F.   *)
C7_SecondCall(p) ==
  /\ Answers(p)
  /\ resp.to = p /\ resp.status = 200 /\ resp.cookie = NoCookie
  /\ req[p].cookie = resp.setCookie /\ req[p].fp = resp.fp
  /\ resp'.logged # "unavailable"

C7_TwoCalls ==
  [][\A p \in Procs :
       C7_SecondCall(p)
         => /\ "isNewDevice" \in ResponseFields(resp) /\ resp.isNewDevice
            /\ resp'.status = 200
            /\ "isNewDevice" \in ResponseFields(resp') /\ ~resp'.isNewDevice
            /\ resp'.deviceId = resp.deviceId
            /\ CountFingerprint(userDoc'.devices, resp.fp) = 1]_vars

(* What holds of the two calls of C7: the handler takes the two paths, the *)
(* id is the same and the list has one entry for F.                        *)
C7_SameIdOneEntry ==
  [][\A p \in Procs :
       C7_SecondCall(p)
         => /\ resp.isNewDevice
            /\ resp'.status = 200
            /\ ~resp'.isNewDevice
            /\ resp'.deviceId = resp.deviceId
            /\ CountFingerprint(userDoc'.devices, resp.fp) = 1]_vars

(* C8: a request with a malformed body or without a valid identity token   *)
(* never reaches the transaction, is answered with an error and without    *)
(* cookie, and leaves the user document, the devices sub-collection and    *)
(* the rate-limit windows as they were.                                    *)
BadRequest(r) == r.body = "malformed" \/ r.token # "valid"

C8_RejectedUntouched ==
  /\ [](\A p \in Procs : pc[p] # "idle" => ~BadRequest(req[p]))
  /\ [][(pc' = pc /\ sent' = sent + 1 /\ BadRequest(resp'))
          => /\ resp'.status \in {400, 401, 500}
             /\ resp'.setCookie = NoCookie
             /\ UNCHANGED <<userDoc, devicesCol, deviceRateLimitStore, jar>>
       ]_vars

(* A rejected request that carried a cookie, with devices registered. *)
C8_Witness ==
  /\ BadRequest(resp) /\ resp.status \in {400, 401, 500}
  /\ resp.cookie # NoCookie
  /\ userDoc.exists

(* C9: when the transaction does not commit the answer is an error, no     *)
(* cookie is set, and the user document and the devices sub-collection     *)
(* are as they were.                                                       *)
C9_AllOrNothing ==
  [][\A p \in Procs :
       (Answers(p) /\ resp'.logged \in {"unavailable", "not-found"})
         => /\ resp'.status = 500
            /\ resp'.setCookie = NoCookie
            /\ UNCHANGED <<userDoc, devicesCol, jar>>]_vars

(* A new-device registration whose transaction did not commit. *)
C9_Witness ==
  /\ resp.status = 500 /\ resp.logged = "unavailable"
  /\ resp.cookie = NoCookie /\ resp.body = "ok" /\ resp.token = "valid"

(* ======================= properties of the limiters ==================== *)
(* C10: of the calls for one identifier that fall within a window W of the *)
(* first of them, the first maxRequests are allowed and every later one is *)
(* denied, for each of the three limiters.                                 *)
C10_LimitPerWindow ==
  (rlLast.seq > 0 /\ rlLast.t < rlLast.first + WindowOf(rlLast.limiter))
    => (rlLast.allowed <=> rlLast.nth <= MaxRequestsOf(rlLast.limiter))

(* The relay denies the call after its maxRequests-th inside a window. *)
C10_Witness ==
  /\ rlLast.limiter = "relay"
  /\ rlLast.nth = relayMaxRequests + 1
  /\ rlLast.t < rlLast.first + relayWindowMs
  /\ rlLast.t > rlLast.first
  /\ ~rlLast.allowed

(* The store of limiter l. *)
StoreOf(l) == IF l = "device" THEN deviceRateLimitStore
              ELSE IF l = "verify" THEN verifyRateLimitStore
              ELSE relayRateLimitStore

(* C11: a call for an identifier at a time t at or after the stored reset  *)
(* time (window start + W), t equal to the reset time included, starts a   *)
(* new window (count = 1, reset = t + W) and is allowed, even when the     *)
(* window before it was exhausted.                                         *)
C11_NewWindowAtReset ==
  [][\A identifier \in LimiterIdentifiers :
       (/\ rlLast'.seq = rlLast.seq + 1
        /\ rlLast'.identifier = identifier
        /\ identifier \in DOMAIN StoreOf(rlLast.limiter)
        /\ now >= StoreOf(rlLast.limiter)[identifier].resetTime)
       => /\ rlLast'.allowed
          /\ StoreOf(rlLast.limiter)'[identifier] =
               [count |-> 1, resetTime |-> now + WindowOf(rlLast.limiter)]]_vars

(* =================== properties of the verification codes ============== *)
(* The record stored under a key in the variant the run serves. *)
Stored(key) ==
  IF variant = "server" THEN Get(verificationCodes, key)
  ELSE Get(verificationStore, key)

(* The record stored under a key after the step. *)
StoredAfter(key) ==
  IF variant' = "server" THEN Get(verificationCodes', key)
  ELSE Get(verificationStore', key)

(* The step answers a request of /api/verify-email. *)
AnswerStep ==
  \/ \E p \in Procs : vpc[p] # "idle" /\ vpc'[p] = "idle"
  \/ vops' = vops + 1 /\ vpc' = vpc

(* The step answers a verify request whose verifyCode ran to its end on    *)
(* the record as it is stored (in the server variant: its transaction      *)
(* committed, and not as a transaction that only read, earlier, that       *)
(* there was no record).                                                   *)
ConsumeStep ==
  /\ AnswerStep
  /\ vresp'.kind = "verify" /\ vresp'.status = 200
  /\ vresp'.why # "unavailable"
  /\ \A p \in Procs :
       (vpc[p] = "commit" /\ vpc'[p] = "idle")
         => vreq[p].snapshot = Get(verificationCodes, vreq[p].email)

(* The code the request answered by the step sent is the one issued last   *)
(* for its email.                                                          *)
CorrectCode ==
  /\ vresp'.email \in DOMAIN issued
  /\ vresp'.code = issued[vresp'.email].code

(* C12: a code yields a valid result at most once: of the verifyCode calls *)
(* that found the record of one issue at most one returned true, and once  *)
(* one has, no record is stored under the key (until the next issue), so   *)
(* later calls find none; this under every interleaving of concurrent      *)
(* calls.                                                                  *)
C12_ValidOnce ==
  \A key \in DOMAIN issued :
    /\ issued[key].valid <= 1
    /\ issued[key].valid = 1 => ~Stored(key).exists

(* A second call with the code that was just accepted found no record. *)
C12_Witness ==
  /\ vresp.kind = "verify" /\ vresp.why = "absent"
  /\ vresp.email \in DOMAIN issued
  /\ issued[vresp.email].valid = 1
  /\ vresp.code = issued[vresp.email].code

(* C13: a verifyCode call that finds a record on which 5 calls failed is   *)
(* rejected and deletes the record, whatever code it brings, and no code   *)
(* is accepted after 5 failures.                                           *)
C13_RejectedAfterFive ==
  [][/\ (/\ ConsumeStep
         /\ vresp'.email \in DOMAIN issued
         /\ issued[vresp'.email].failed = maxAttempts
         /\ Stored(vresp'.email).exists)
        => /\ ~vresp'.success
           /\ ~StoredAfter(vresp'.email).exists
     /\ \A key \in DOMAIN issued' :
          issued'[key].valid > 0 => issued'[key].failed < maxAttempts]_vars

(* The correct code was rejected for the attempts made before it. *)
C13_Witness ==
  /\ vresp.kind = "verify" /\ vresp.why = "attempts" /\ ~vresp.success
  /\ vresp.email \in DOMAIN issued
  /\ vresp.code = issued[vresp.email].code
  /\ issued[vresp.email].failed = maxAttempts
  /\ ~Stored(vresp.email).exists

(* C14: the attempt counter of every stored record is between 0 and 5. *)
C14_AttemptsBounded ==
  /\ \A key \in DOMAIN verificationCodes :
       verificationCodes[key].attempts \in 0..maxAttempts
  /\ \A key \in DOMAIN verificationStore :
       verificationStore[key].attempts \in 0..maxAttempts

(* A stored record whose counter is at the maximum. *)
C14_Witness ==
  \E key \in Emails : Stored(key).exists /\ Stored(key).attempts = maxAttempts

(* C15: a verifyCode call with the correct code on a record issued at time *)
(* T, with attempts left, returns true at T + TTL - 1s; at T + TTL + 1s it *)
(* returns false and deletes the record.                                   *)
C15_Expiry ==
  [][(/\ ConsumeStep /\ CorrectCode
      /\ Stored(vresp'.email).exists
      /\ Stored(vresp'.email).attempts < maxAttempts)
     => LET T == issued[vresp'.email].issuedAt
        IN /\ now = T + verifyTTL - 1 => vresp'.success
           /\ now = T + verifyTTL + 1
                => /\ ~vresp'.success
                   /\ vresp'.why = "expired"
                   /\ ~StoredAfter(vresp'.email).exists]_vars

(* The correct code was rejected a second after the record expired. *)
C15_Witness ==
  /\ vresp.kind = "verify" /\ vresp.why = "expired"
  /\ vresp.email \in DOMAIN issued
  /\ vresp.code = issued[vresp.email].code
  /\ now = issued[vresp.email].issuedAt + verifyTTL + 1
  /\ ~Stored(vresp.email).exists

(* C16: no increment is lost: the counter of a stored record is the number *)
(* of calls that failed on it, and at most 5 codes are ever compared with  *)
(* one issued code, under every interleaving.                              *)
C16_NoLostIncrement ==
  \A key \in DOMAIN issued :
    /\ issued[key].compared <= maxAttempts
    /\ issued[key].failed <= maxAttempts
    /\ Stored(key).exists => Stored(key).attempts = issued[key].failed

(* A failed call was answered whose transaction ran again because another  *)
(* failed call committed first, and both are counted.                      *)
C16_Witness ==
  /\ vresp.kind = "verify" /\ vresp.why = "invalid"
  /\ vresp.conflict = "consume"
  /\ Stored(vresp.email).exists
  /\ Stored(vresp.email).attempts = 2
  /\ issued[vresp.email].failed = 2

(* C17: an issue that commits leaves the new hash with attempts 0; a       *)
(* failing verifyCode call that an issue overtook commits on the new       *)
(* record only: it leaves the hash of the code issued last with one        *)
(* attempt more than the calls that failed on that code, never the count   *)
(* of the superseded record plus one, and never the old hash.              *)
C17_Linearizable ==
  [][/\ \A p \in Procs :
          (vpc[p] = "set" /\ vpc'[p] = "mail")
            => Get(verificationCodes', vreq[p].email) =
                 ServerRecord(vreq[p].generated, vreq[p].email,
                              vreq[p].expiresAt, now, vreq[p].ip)
     /\ \A p \in Procs :
          (/\ vpc[p] = "commit" /\ vpc'[p] = "idle"
           /\ vreq[p].conflict = "issue"
           /\ vresp'.why = "invalid")
          => LET key == vreq[p].email
                 after == Get(verificationCodes', key)
             IN /\ after.exists
                /\ after.hashedCode = hashCode(issued[key].code, key)
                /\ after.attempts = issued[key].failed + 1]_vars

(* A wrong code met a record with 4 attempts, an issue replaced the record *)
(* before the call committed, and the new record has one attempt.          *)
C17_Witness ==
  /\ vresp.kind = "verify" /\ vresp.why = "invalid"
  /\ vresp.conflict = "issue"
  /\ Stored(vresp.email).exists
  /\ Stored(vresp.email).attempts = 1
  /\ issued[vresp.email].failed = 1

(* The window of a key is exhausted at time t. *)
Exhausted(store, key, t) ==
  /\ key \in DOMAIN store
  /\ t <= store[key].resetTime
  /\ store[key].count >= verifyMaxRequests

(* C18: a send for an email whose window, or from an address whose window, *)
(* is exhausted is rejected; it leaves every verification record as it     *)
(* was and no mail is dispatched for it.                                   *)
C18_RejectedIssue ==
  [][\A p \in Procs, i \in SendInputs :
       (/\ SendStart(p, i.email, i.ip) \/ MemorySend(p, i.email, i.ip)
        /\ ValidEmail(i.email)
        /\ \/ Exhausted(verifyRateLimitStore, emailKey(i.email), now)
           \/ Exhausted(verifyRateLimitStore, ipKey(i.ip), now))
       => /\ ~vresp'.success /\ vresp'.why = "rate-limited"
          /\ vresp'.status = SendFailureStatus(variant)
          /\ vpc' = vpc
          /\ UNCHANGED <<verificationCodes, verificationStore, outbox>>]_vars

(* A send for an email with requests left was rejected for its address. *)
C18_Witness ==
  /\ vresp.kind = "send" /\ vresp.why = "rate-limited"
  /\ vresp.email # WarmEmail
  /\ ~Exhausted(verifyRateLimitStore, emailKey(vresp.email), now)
  /\ Exhausted(verifyRateLimitStore, ipKey(1), now)
  /\ Stored(WarmEmail).exists

(* C19: a reset-password request for an email whose window is exhausted is *)
(* rejected and writes no record.                                          *)
C19_ResetRateLimited ==
  [][\A p \in Procs, email \in Emails :
       (/\ MemoryReset(p, email)
        /\ Exhausted(verifyRateLimitStore, emailKey(email), now))
       => /\ vpc' = vpc
          /\ verificationStore' = verificationStore]_vars

(* C20: when the dispatch of a committed code fails, the request is        *)
(* answered as failed and the records stay as they are; the record of a    *)
(* code whose dispatch failed accepts that code while it has not expired   *)
(* and has attempts left.                                                  *)
C20_UndeliveredStays ==
  [][/\ \A p \in Procs :
          Dispatch(p, "failed")
            => /\ ~vresp'.success
               /\ vresp'.kind = "send" =>
                    vresp'.status = SendFailureStatus(variant)
               /\ UNCHANGED <<verificationCodes, verificationStore>>
     /\ (/\ ConsumeStep /\ CorrectCode
         /\ issued[vresp'.email].delivered = "failed"
         /\ Stored(vresp'.email).exists
         /\ Stored(vresp'.email).attempts < maxAttempts
         /\ now <= Stored(vresp'.email).expiresAt)
        => /\ vresp'.success
           /\ ~StoredAfter(vresp'.email).exists]_vars

(* A code that was never delivered was accepted. *)
C20_Witness ==
  /\ vresp.kind = "verify" /\ vresp.why = "valid" /\ vresp.success
  /\ vresp.email \in DOMAIN issued
  /\ issued[vresp.email].delivered = "failed"
  /\ issued[vresp.email].valid = 1

(* The causes for which a send fails after its request was parsed: the     *)
(* mail service refused the mail of a committed record, the write of the   *)
(* record failed, the rate limit rejected the request.                     *)
SendFailureCauses == {"failed", "unavailable", "rate-limited"}

(* C21: no two of the three causes of a failed send (dispatch failure      *)
(* after the record was committed, failure of the write, rate limit)       *)
(* produce the same outcome visible to the caller: two sends answered one  *)
(* after the other for different causes receive different responses.       *)
C21_CausesDistinct ==
  [][(/\ vresp.kind = "send" /\ vresp'.kind = "send"
      /\ vresp.why \in SendFailureCauses
      /\ vresp'.why \in SendFailureCauses
      /\ vresp.why # vresp'.why)
     => SendResponse(variant, vresp) # SendResponse(variant, vresp')]_vars

(* C22: no stored verification record contains the raw code: what is       *)
(* stored under a key is the salted hash of the code issued for it, in     *)
(* the Firestore collection and in the in-memory Map alike.                *)
C22_NoRawCode ==
  /\ \A key \in DOMAIN verificationCodes :
       /\ "code" \notin DOMAIN verificationCodes[key]
       /\ verificationCodes[key].hashedCode
            = hashCode(issued[key].code, key)
  /\ \A key \in DOMAIN verificationStore :
       /\ "code" \notin DOMAIN verificationStore[key]
       /\ "hashedCode" \in DOMAIN verificationStore[key]

(* C23: verifyCode returns true if and only if a record is stored under    *)
(* the key, the time is not past its expiry, its attempts are below 5 and  *)
(* the code is the one issued; the checks come in the order absent,        *)
(* expired, attempts, compare, and every other case returns false.         *)
C23_ValidIff ==
  [][ConsumeStep =>
       LET key == vresp'.email
           record == Stored(key)
           expired == now > record.expiresAt
           exceeded == record.attempts >= maxAttempts
           equal == key \in DOMAIN issued /\ vresp'.code = issued[key].code
       IN /\ vresp'.success <=>
               (record.exists /\ ~expired /\ ~exceeded /\ equal)
          /\ vresp'.why =
               (IF ~record.exists THEN "absent"
                ELSE IF expired THEN "expired"
                ELSE IF exceeded THEN "attempts"
                ELSE IF equal THEN "valid" ELSE "invalid")]_vars

(* A code met a record that had expired and had its 5 attempts used, and   *)
(* was answered as expired.                                                *)
C23_Witness ==
  /\ vresp.kind = "verify" /\ vresp.why = "expired"
  /\ vresp.email \in DOMAIN issued
  /\ issued[vresp.email].failed = maxAttempts
  /\ ~Stored(vresp.email).exists

(* The step issues or consumes a code of the in-memory variant for the     *)
(* purpose verify of email, or dispatches its mail.                        *)
VerifyPurposeStep(email) ==
  \E p \in Procs :
    \/ \E i \in SendInputs : i.email = email /\ MemorySend(p, i.email, i.ip)
    \/ \E code \in CodeInputs : MemoryVerify(p, email, code)
    \/ \E outcome \in MailOutcomes :
         /\ Dispatch(p, outcome) /\ vreq[p].kind = "send"
         /\ vreq[p].email = email

(* The step issues a code for the purpose reset of email, or dispatches    *)
(* its mail.                                                               *)
ResetPurposeStep(email) ==
  \E p \in Procs :
    \/ MemoryReset(p, email)
    \/ \E outcome \in MailOutcomes :
         /\ Dispatch(p, outcome) /\ vreq[p].kind = "reset"
         /\ vreq[p].email = email

(* C24: the records for the purposes verify and reset of one email are     *)
(* stored under distinct keys: issuing or consuming a code for one purpose *)
(* leaves the record of the other as it was, and the code issued for one   *)
(* purpose is not accepted for the other: verifyCode accepts only the code *)
(* issued for verify, and no request consumes under the key of a reset     *)
(* record.                                                                 *)
C24_PurposesApart ==
  [][\A email \in Emails :
       /\ ResetKey(email) # email
       /\ VerifyPurposeStep(email) =>
            /\ Get(verificationStore', ResetKey(email))
                 = Get(verificationStore, ResetKey(email))
            /\ Get(issued', ResetKey(email)) = Get(issued, ResetKey(email))
       /\ ResetPurposeStep(email) =>
            /\ Get(verificationStore', email) = Get(verificationStore, email)
            /\ Get(issued', email) = Get(issued, email)
       /\ (/\ AnswerStep /\ vresp'.kind = "verify" /\ vresp'.success
           /\ vresp'.email \in {email, ResetKey(email)})
          => /\ vresp'.email = email
             /\ email \in DOMAIN issued
             /\ vresp'.code = issued[email].code]_vars

(* Both records of an email are stored, a wrong code was counted on the    *)
(* verify record, and the reset record is as it was issued.                *)
C24_Witness ==
  /\ variant = "memory"
  /\ vresp.kind = "verify" /\ vresp.why = "invalid"
  /\ Get(verificationStore, ResetKey(vresp.email)).exists
  /\ Get(verificationStore, ResetKey(vresp.email)).attempts = 0
  /\ vresp.code = Get(verificationStore, ResetKey(vresp.email)).code
  /\ Get(verificationStore, vresp.email).exists
  /\ Get(verificationStore, vresp.email).attempts > 0

(* The count of the window stored for a key: none when there is no window. *)
CountOf(store, key) == IF key \in DOMAIN store THEN store[key].count ELSE 0

(* C29: a send denied by rate limiting consumes no budget: when it is      *)
(* rejected because the window of its email or of its address is           *)
(* exhausted, the counts of both keys are after the request what they      *)
(* were before.                                                            *)
C29_DeniedConsumesNothing ==
  [][\A p \in Procs, i \in SendInputs :
       (/\ SendStart(p, i.email, i.ip) \/ MemorySend(p, i.email, i.ip)
        /\ vresp'.kind = "send" /\ vresp'.why = "rate-limited"
        /\ vops' = vops + 1 /\ vpc' = vpc)
       => /\ CountOf(verifyRateLimitStore', emailKey(i.email))
              = CountOf(verifyRateLimitStore, emailKey(i.email))
          /\ CountOf(verifyRateLimitStore', ipKey(i.ip))
              = CountOf(verifyRateLimitStore, ipKey(i.ip))]_vars

(* C30: for every identifier, however the calls of the handlers are        *)
(* interleaved, the calls allowed since a window was created never exceed  *)
(* maxRequests, and the stored count is the number of those calls, between *)
(* 1 and maxRequests: no call is lost or counted twice.                    *)
C30_AtomicCount ==
  \A l \in Limiters :
    \A identifier \in DOMAIN StoreOf(l) :
      LET k == <<l, identifier>>
      IN /\ StoreOf(l)[identifier].count \in 1..MaxRequestsOf(l)
         /\ k \in DOMAIN rlWindow
         /\ rlWindow[k].allowed <= MaxRequestsOf(l)
         /\ StoreOf(l)[identifier].resetTime = rlWindow[k].first + WindowOf(l)
         /\ StoreOf(l)[identifier].count = rlWindow[k].allowed

(* Calls for two identifiers were interleaved, the window of one is full   *)
(* and a call for it was denied while the other has requests left.         *)
C30_Witness ==
  /\ ~rlLast.allowed
  /\ rlLast.identifier \in DOMAIN StoreOf(rlLast.limiter)
  /\ StoreOf(rlLast.limiter)[rlLast.identifier].count
       = MaxRequestsOf(rlLast.limiter)
  /\ \E other \in DOMAIN StoreOf(rlLast.limiter) :
       /\ other # rlLast.identifier
       /\ StoreOf(rlLast.limiter)[other].count = 1

(* The identifier was denied by the limiter of the run and has not been    *)
(* allowed since.                                                          *)
Waiting(identifier) == <<rlLast.limiter, identifier>> \in DOMAIN rlWindow

(* C31: rate limiting is never permanent: once the time has passed the     *)
(* reset time the window of a denied identifier had when it was first      *)
(* denied, the identifier is allowed again, however many denied calls were *)
(* made in between: they do not extend the window.                         *)
C31_EventuallyAllowed ==
  \A identifier \in LimiterIdentifiers :
    (/\ Waiting(identifier)
     /\ now > rlWindow[<<rlLast.limiter, identifier>>].until)
      ~> ~Waiting(identifier)

(* An identifier that was denied was allowed by the call after the reset   *)
(* time of its window, which started a new window.                         *)
C31_Witness ==
  /\ rlLast.allowed
  /\ rlLast.first > 0 /\ now > rlLast.first
  /\ ~Waiting(rlLast.identifier)
  /\ StoreOf(rlLast.limiter)[rlLast.identifier]
       = [count |-> 1, resetTime |-> now + WindowOf(rlLast.limiter)]

(* ==================== properties of the email relay ==================== *)
(* The step answers a request of the relay that checks signatures. *)
SignedRelayStep == relay = "signed" /\ rops' = rops + 1

(* The fields of an object, whatever their order. *)
Content(obj) == {obj[i] : i \in 1..Len(obj)}

(* What the relay reads in a body: the message and the timestamp. *)
Read(body) == Omit(zSafeParse(body, SignedKeys).data, {"hmac"})

(* The request answered by the step is as its signer sent it. *)
AsSigned == rresp'.body = SignedRequest(rresp'.message)

(* C25: round trip of the signer: the relay accepts a request that carries *)
(* createEmailHMAC(message) for a message the schema accepts with a fresh  *)
(* timestamp, in whatever order the signer listed the fields and whatever  *)
(* optional fields it left out.                                            *)
C25_RoundTrip ==
  [][(/\ SignedRelayStep /\ AsSigned
      /\ rresp'.status # 429
      /\ zSafeParse(rresp'.body, SignedKeys).success
      /\ Abs(now - Field(rresp'.message, "timestamp")) <= relayFreshness)
     => /\ rresp'.status = 200
        /\ rresp'.reached
        /\ relaySends' = relaySends + 1]_vars

(* C26: a change to a field of the message or to the timestamp of a signed *)
(* request after signing makes the verification fail: the relay answers    *)
(* 401 to the changed request and sends no email.                          *)
C26_TamperRejected ==
  [][(/\ SignedRelayStep
      /\ rresp'.status # 429
      /\ zSafeParse(rresp'.body, SignedKeys).success
      /\ Field(rresp'.body, "hmac") = createEmailHMAC(rresp'.message)
      /\ Content(Read(rresp'.body))
           # Content(Read(SignedRequest(rresp'.message))))
     => /\ rresp'.status = 401
        /\ ~rresp'.success /\ ~rresp'.reached
        /\ relaySends' = relaySends]_vars

(* A request whose subject was changed on its way, with a fresh timestamp  *)
(* and the signature of its signer, was answered 401 and nothing was sent. *)
C26_Witness ==
  /\ relay = "signed"
  /\ rresp.status = 401 /\ rresp.error = "Invalid authentication"
  /\ Field(rresp.body, "subject") # Field(rresp.message, "subject")
  /\ Field(rresp.body, "hmac") = createEmailHMAC(rresp.message)
  /\ Field(rresp.body, "timestamp") = now
  /\ relaySends = 0

(* C27: a correctly signed request whose timestamp is more than 5 minutes  *)
(* from the clock of the relay, in the past or in the future, is rejected  *)
(* and no email is sent for it.                                            *)
C27_StaleRejected ==
  [][(/\ SignedRelayStep /\ AsSigned
      /\ Abs(now - Field(rresp'.message, "timestamp")) > relayFreshness)
     => /\ rresp'.status \in {401, 429}
        /\ rresp'.status = 401 => rresp'.error = "Request timestamp expired"
        /\ ~rresp'.success /\ ~rresp'.reached
        /\ relaySends' = relaySends]_vars

(* A request with the signature the relay computes for it and a timestamp  *)
(* a second more than 5 minutes in the future was answered 401.            *)
C27_Witness ==
  /\ relay = "signed"
  /\ rresp.status = 401 /\ rresp.error = "Request timestamp expired"
  /\ rresp.body = SignedRequest(rresp.message)
  /\ verifyHMAC(Read(rresp.body), Field(rresp.body, "hmac")).result
  /\ Field(rresp.body, "timestamp") = now + relayFreshness + 1
  /\ relaySends = 0

(* C28: the relay hands a message to sendEmailServer only for a request    *)
(* that passed the rate limit of its address, the schema, the freshness    *)
(* check and the HMAC check: no email is sent for a request without a      *)
(* valid signature.                                                        *)
C28_OnlyAuthenticated ==
  [][relaySends' = relaySends + 1
     => /\ ~isRateLimitedRelay(relayRateLimitStore, rresp'.ip, now).limited
        /\ zSafeParse(rresp'.body, SignedKeys).success
        /\ Abs(now - Field(rresp'.body, "timestamp")) <= relayFreshness
        /\ Field(rresp'.body, "hmac")
             = HmacSha256(getServerSecret, Stringify(Read(rresp'.body)))]_vars

(* C32: the device list holds at most one entry per fingerprint (user      *)
(* agent and client address), whatever registrations the endpoint served.  *)
C32_OnePerFingerprint ==
  \A i, j \in 1..Len(userDoc.devices) :
    (/\ userDoc.devices[i].clientIP = userDoc.devices[j].clientIP
     /\ userDoc.devices[i].userAgent = userDoc.devices[j].userAgent)
      => i = j

(* A full list in which the entry of the first fingerprint was replaced by *)
(* a registration without cookie from the same fingerprint: its entry is   *)
(* the last one, under a new id, and no entry was evicted for it.          *)
C32_Witness ==
  /\ Len(userDoc.devices) = maxDevices
  /\ SameFingerprint(userDoc.devices[maxDevices], 1)
  /\ userDoc.devices[maxDevices].id > maxDevices
  /\ CountFingerprint(userDoc.devices, 2) = 1

(* C33: a registration on the existing-device path whose cookie id matches *)
(* an entry of the list changes only that entry's last-active timestamp:   *)
(* the length and order of the list, the entry's id, fingerprint and login *)
(* time and every other entry stay as they were, the answer carries the    *)
(* cookie's id, and no id is generated at any step of the request.         *)
ListedId(devices, id) == \E i \in 1..Len(devices) : devices[i].id = id

ExistingCommit(p) ==
  /\ pc[p] = "commit" /\ pc'[p] = "idle"
  /\ resp'.to = p /\ resp'.status = 200
  /\ ~req[p].isNewDevice
  /\ ListedId(userDoc.devices, req[p].cookie)

C33_Step ==
  /\ \A p \in DOMAIN pc :
       /\ (pc[p] = "idle" /\ pc'[p] = "txn" /\ ~req'[p].isNewDevice)
            => (nextId' = nextId /\ req'[p].deviceId = req'[p].cookie)
       /\ ExistingCommit(p) =>
            /\ Len(userDoc'.devices) = Len(userDoc.devices)
            /\ resp'.deviceId = req[p].cookie
            /\ nextId' = nextId
            /\ \A i \in 1..Len(userDoc.devices) :
                 IF userDoc.devices[i].id = req[p].cookie
                   THEN userDoc'.devices[i] =
                          [userDoc.devices[i] EXCEPT !.lastActiveAt = now]
                   ELSE userDoc'.devices[i] = userDoc.devices[i]

C33_TouchInPlace == [][C33_Step]_vars

C33_Witness ==
  /\ resp.status = 200 /\ ~resp.isNewDevice
  /\ Len(userDoc.devices) >= 2
  /\ userDoc.devices[1].id = resp.cookie
  /\ userDoc.devices[1].lastActiveAt = now
  /\ userDoc.devices[1].loggedInAt < now
  /\ userDoc.devices[2].lastActiveAt < now

(* C34: a verifyCode call that brings a wrong code to a record that has    *)
(* not expired and has fewer than 5 attempts returns false, adds exactly   *)
(* one to the attempts of the record and changes nothing else of it (the   *)
(* stored digest or code and the expiry stay); the record stays stored,    *)
(* and a later call with the correct code on a record with failed calls,   *)
(* not expired and with attempts left, returns true.                       *)
Live(record) ==
  /\ record.exists
  /\ record.expiresAt >= now
  /\ record.attempts < maxAttempts

C34_Step ==
  /\ (ConsumeStep /\ ~CorrectCode /\ vresp'.email \in DOMAIN issued
        /\ Live(Stored(vresp'.email)))
       => /\ ~vresp'.success
          /\ StoredAfter(vresp'.email) =
               [Stored(vresp'.email) EXCEPT !.attempts = @ + 1]
  /\ (ConsumeStep /\ CorrectCode
        /\ Live(Stored(vresp'.email))
        /\ Stored(vresp'.email).attempts > 0)
       => /\ vresp'.success
          /\ ~StoredAfter(vresp'.email).exists

C34_FailedConsume == [][C34_Step]_vars

(* The correct code was accepted after a wrong one had been counted. *)
C34_Witness ==
  /\ vresp.kind = "verify" /\ vresp.success
  /\ vresp.email \in DOMAIN issued
  /\ issued[vresp.email].failed = 1
  /\ issued[vresp.email].valid = 1
  /\ vops = 2

(* C35: issuing a code for a key under which a record is stored replaces   *)
(* the record: afterwards the one record under the key holds the new code, *)
(* has attempts 0 and expires a full lifetime from now; and a verifyCode   *)
(* call returns true only for the code issued last for its key, so a code  *)
(* issued before it (and different from it) is not accepted any more.      *)
IssuedKey(p) ==
  IF vreq'[p].kind = "reset" THEN ResetKey(vreq'[p].email) ELSE vreq'[p].email

IssueStep(p) ==
  /\ vpc'[p] = "mail"
  /\ vpc[p] = (IF variant = "server" THEN "set" ELSE "idle")

HoldsCode(record, key, code) ==
  IF variant = "server" THEN record.hashedCode = hashCode(code, key)
  ELSE record.code = code

C35_Step ==
  /\ \A p \in Procs :
       (IssueStep(p) /\ Stored(IssuedKey(p)).exists) =>
         LET key == IssuedKey(p)
             after == StoredAfter(key)
         IN /\ after.exists
            /\ after.attempts = 0
            /\ after.expiresAt =
                 now + (IF vreq'[p].kind = "reset" THEN resetTTL
                        ELSE verifyTTL)
            /\ HoldsCode(after, key, issued'[key].code)
            /\ issued'[key] = Issue(vreq'[p].generated, now, p)
  /\ (ConsumeStep /\ vresp'.success) => CorrectCode
  /\ (ConsumeStep /\ CorrectCode /\ Live(Stored(vresp'.email)))
       => vresp'.success

C35_Superseded == [][C35_Step]_vars

(* The code issued first, on whose record 4 calls had failed, was rejected *)
(* as the first failed call on the record of the code issued after it.     *)
C35_Witness ==
  /\ vresp.kind = "verify" /\ vresp.why = "invalid"
  /\ vresp.code = WarmCode /\ vresp.email = WarmEmail
  /\ issued[WarmEmail].code # WarmCode
  /\ issued[WarmEmail].failed = 1
  /\ Stored(WarmEmail).exists /\ Stored(WarmEmail).attempts = 1
  /\ outbox > 0

(* C36: the signature check of the relay never raises: whatever string the *)
(* request carries as signature (of another length, with characters that   *)
(* are no hex digits, empty), verifyHMAC returns without an exception, and *)
(* for every signature other than the digest of the message received the   *)
(* relay answers 401 "Invalid authentication", sends nothing and never     *)
(* answers 500.                                                            *)
ReachesHmacCheck ==
  /\ SignedRelayStep
  /\ rresp'.status # 429
  /\ zSafeParse(rresp'.body, SignedKeys).success
  /\ ~Expired(now, Field(rresp'.body, "timestamp"))

C36_Step ==
  ReachesHmacCheck =>
    LET received == Field(rresp'.body, "hmac")
        verified == verifyHMAC(Read(rresp'.body), received)
    IN /\ ~verified.raised
       /\ rresp'.status # 500
       /\ received # HmacSha256(getServerSecret,
                                Stringify(Read(rresp'.body)))
            => /\ ~verified.result
               /\ rresp'.status = 401
               /\ rresp'.error = "Invalid authentication"
               /\ ~rresp'.success /\ ~rresp'.reached
               /\ relaySends' = relaySends

C36_NeverRaises == [][C36_Step]_vars

(* A signature of the right length whose last characters are no hex digits *)
(* (timingSafeEqual gets buffers of different lengths) was answered 401.   *)
C36_Witness ==
  /\ relay = "signed"
  /\ rresp.status = 401 /\ rresp.error = "Invalid authentication"
  /\ "hmac" \in Keys(rresp.body)
  /\ Field(rresp.body, "hmac").length = hmacHexLength
  /\ Field(rresp.body, "hmac").hex < hmacHexLength
  /\ relaySends = 0

(* C37: in the production flow of the signup page the user document is     *)
(* created with emailVerified false, and a failure to send the             *)
(* verification email never sets emailVerified of the account to true.     *)
C37_Step ==
  canSendEmails(signup.hostname) =>
    \A u \in DOMAIN firebase'.users :
      IF u \notin DOMAIN firebase.users
        THEN ~firebase'.users[u].emailVerified
      ELSE (signup'.mail = "failed" /\ signup.uid = u)
             => (firebase'.users[u].emailVerified
                   => firebase.users[u].emailVerified)

C37_UndeliveredUnverified == [][C37_Step]_vars

(* C38: AuthProvider renders its children only when auth and profile       *)
(* loading have finished and either a user is signed in on a non-auth      *)
(* route or nobody is signed in on an auth route; in every other state it  *)
(* renders the loading screen.  Whenever a render puts a signed-out        *)
(* visitor on a non-auth route, or a signed-in user on an auth route, with *)
(* loading finished, the route effect is run for it, and it calls          *)
(* router.replace('/login') for the first and router.replace('/') for the  *)
(* second.                                                                 *)
SignedOutElsewhere(g) ==
  ~g.loading /\ ~g.profileLoading /\ g.user = NoUser
    /\ g.pathname \notin {"/login", "/signup", "/verify-email"}

SignedInOnAuthRoute(g) ==
  ~g.loading /\ ~g.profileLoading /\ g.user # NoUser
    /\ g.pathname \in {"/login", "/signup", "/verify-email"}

ChildrenAllowed(g) ==
  /\ ~g.loading /\ ~g.profileLoading
  /\ \/ g.user # NoUser
        /\ g.pathname \notin {"/login", "/signup", "/verify-email"}
     \/ g.user = NoUser
        /\ g.pathname \in {"/login", "/signup", "/verify-email"}

C38_Screen ==
  guard.screen = IF ChildrenAllowed(guard) THEN "children" ELSE "loading"

C38_Redirect ==
  /\ (/\ SignedOutElsewhere(guard') \/ SignedInOnAuthRoute(guard')
      /\ <<guard.user, guard.loading, guard.profileLoading, guard.pathname>>
           # <<guard'.user, guard'.loading, guard'.profileLoading,
               guard'.pathname>>)
       => "route" \in guard'.due
  /\ (/\ "route" \in guard.due /\ guard' # guard
      /\ SignedOutElsewhere(guard))
       => /\ guard'.router = [how |-> "replace", to |-> "/login"]
          /\ guard'.nav = "/login"
  /\ (/\ "route" \in guard.due /\ guard' # guard
      /\ SignedInOnAuthRoute(guard))
       => /\ guard'.router = [how |-> "replace", to |-> "/"]
          /\ guard'.nav = "/"

C38_RouteGuard == []C38_Screen /\ [][C38_Redirect]_vars

(* A user who signed in on the login page was sent to / and sees the       *)
(* children there, with the profile loaded.                                *)
C38_Witness ==
  /\ guard.screen = "children"
  /\ guard.user # NoUser /\ guard.pathname = "/"
  /\ guard.router = [how |-> "replace", to |-> "/"]
  /\ guard.userProfile = firebase.users[guard.user]
  /\ guard.ops > 0

====
